---- MODULE Spec2Model ----
(***************************************************************************)
(* Model of the NDFC documentation builder: the template normalizer        *)
(* (util/ndfc_template.py, class NdfcTemplate) and the documentation       *)
(* builder (util/ndfc_doc_builder.py, class NdfcDocBuilder), and the HTTP  *)
(* client that fetches the templates (util/ndfc.py, class NDFC).           *)
(*                                                                         *)
(* Python text is a sequence of one-character strings; every Python value  *)
(* is a tagged record, and a raised exception is the value Raised(e).      *)
(* A dict is a sequence of <<key, value>> pairs in insertion order.        *)
(***************************************************************************)
EXTENDS Integers, Sequences, FiniteSets, TLC

VARIABLES item, arg, op, ret,
          module_name, module_author, module_states, module_default_state,
          template_all, template_dict, template, translation, documentation,
          response, headers, bearer_token,
          environ, ip4, password, username, properties, auth_token, login_request,
          printed, template_json_file, opened

normVars == <<item, arg>>
builderVars == <<module_name, module_author, module_states, module_default_state,
                 template_all, template_dict, template, translation, documentation>>
\* the HTTP client (util/ndfc.py, class NDFC)
ndfcVars == <<response, headers, bearer_token,
              environ, ip4, password, username, properties, auth_token, login_request>>
\* the documentation that print() wrote last; the messages that load() and
\* the exits print are not kept
ioVars == <<printed>>
\* NdfcTemplate.template_json_file, and the paths load() has opened
fileVars == <<template_json_file, opened>>
vars == <<item, arg, op, ret, module_name, module_author, module_states,
          module_default_state, template_all, template_dict, template,
          translation, documentation, response, headers, bearer_token,
          environ, ip4, password, username, properties, auth_token, login_request,
          printed, template_json_file, opened>>

(***************************************************************************)
(* Python values                                                           *)
(***************************************************************************)
None == [t |-> "none"]
PyBool(b) == [t |-> "bool", b |-> b]
PyInt(n) == [t |-> "int", n |-> n]
PyFloat(s) == [t |-> "float", s |-> s]
PyStr(s) == [t |-> "str", s |-> s]
PyList(l) == [t |-> "list", l |-> l]
PyTuple(l) == [t |-> "tuple", l |-> l]
PyDict(d) == [t |-> "dict", d |-> d]
Raised(e) == [t |-> "exc", e |-> e]
\* sys.exit(status)
SysExit(n) == [t |-> "exit", n |-> n]
\* an attribute that was never assigned
Unset == [t |-> "unset"]

IsExc(v) == v.t \in {"exc", "exit"}
\* Python truthiness of a value
Truthy(v) ==
    CASE v.t = "none" -> FALSE
      [] v.t = "bool" -> v.b
      [] v.t = "int" -> v.n # 0
      [] v.t = "str" -> v.s # <<>>
      [] v.t = "list" -> v.l # <<>>
      [] v.t = "dict" -> v.d # <<>>
      [] OTHER -> TRUE

\* dict helpers: key in d, d[key]
HasKey(d, k) == \E i \in 1..Len(d) : d[i][1] = k
GetKey(d, k) == d[CHOOSE i \in 1..Len(d) : d[i][1] = k][2]
\* d[k] = v on a dict: replaces in place, or appends a new key
SetKey(d, k, v) ==
    IF HasKey(d, k)
    THEN [i \in 1..Len(d) |-> IF d[i][1] = k THEN <<k, v>> ELSE d[i]]
    ELSE Append(d, <<k, v>>)

(***************************************************************************)
(* Text helpers (str methods and the re calls the normalizer makes)        *)
(***************************************************************************)
Whitespace == {" ", "\t", "\n"}
Digits == <<"0","1","2","3","4","5","6","7","8","9">>
UpperLetters == <<"A","B","C","D","E","F","G","H","I","J","K","L","M","N","O","P","Q","R","S","T","U","V","W","X","Y","Z">>
LowerLetters == <<"a","b","c","d","e","f","g","h","i","j","k","l","m","n","o","p","q","r","s","t","u","v","w","x","y","z">>
IsSpace(c) == c \in Whitespace
IsDigit(c) == \E i \in 1..10 : Digits[i] = c
DigitVal(c) == (CHOOSE i \in 1..10 : Digits[i] = c) - 1

RECURSIVE LStrip(_)
LStrip(s) == IF s # <<>> /\ IsSpace(Head(s)) THEN LStrip(Tail(s)) ELSE s
RECURSIVE RStrip(_)
RStrip(s) ==
    IF s # <<>> /\ IsSpace(s[Len(s)]) THEN RStrip(SubSeq(s, 1, Len(s) - 1)) ELSE s
\* str.strip()
strip(s) == RStrip(LStrip(s))

LowerChar(c) ==
    IF \E i \in 1..26 : UpperLetters[i] = c
    THEN LowerLetters[CHOOSE i \in 1..26 : UpperLetters[i] = c]
    ELSE c
\* str.lower()
lower(s) == [i \in 1..Len(s) |-> LowerChar(s[i])]

StartsWith(s, p) == Len(s) >= Len(p) /\ SubSeq(s, 1, Len(p)) = p
Drop(s, n) == SubSeq(s, n + 1, Len(s))
\* p in s (substring test on text)
Contains(s, p) == \E i \in 0..(Len(s) - Len(p)) : SubSeq(s, i + 1, i + Len(p)) = p

\* re.sub(pat, repl, s) for a literal pattern: leftmost non-overlapping matches
RECURSIVE re_sub(_, _, _)
re_sub(pat, repl, s) ==
    IF s = <<>> THEN <<>>
    ELSE IF StartsWith(s, pat) THEN repl \o re_sub(pat, repl, Drop(s, Len(pat)))
    ELSE <<Head(s)>> \o re_sub(pat, repl, Tail(s))

\* re.sub(r"\s+", " ", s)
RECURSIVE re_sub_spaces(_)
re_sub_spaces(s) ==
    IF s = <<>> THEN <<>>
    ELSE IF IsSpace(Head(s)) THEN <<" ">> \o re_sub_spaces(LStrip(s))
    ELSE <<Head(s)>> \o re_sub_spaces(Tail(s))

\* c in s, and the text before / after the first c of s
Has(s, c) == \E i \in 1..Len(s) : s[i] = c
IndexOf(s, c) ==
    IF Has(s, c) THEN CHOOSE i \in 1..Len(s) : s[i] = c /\ \A k \in 1..(i - 1) : s[k] # c
    ELSE Len(s) + 1
Before(s, c) == SubSeq(s, 1, IndexOf(s, c) - 1)
After(s, c) == Drop(s, IndexOf(s, c))
\* str.split(sep) for a one-character separator
RECURSIVE split(_, _)
split(s, sep) ==
    IF Has(s, sep) THEN <<Before(s, sep)>> \o split(After(s, sep), sep) ELSE <<s>>

\* the digit part of a Python numeric literal: digits, single underscores between
IsDigitPart(s) ==
    /\ s # <<>>
    /\ \A i \in 1..Len(s) : IsDigit(s[i]) \/ s[i] = "_"
    /\ IsDigit(s[1]) /\ IsDigit(s[Len(s)])
    /\ \A i \in 1..(Len(s) - 1) : ~(s[i] = "_" /\ s[i + 1] = "_")
RECURSIVE DigitsValue(_, _)
DigitsValue(s, acc) ==
    IF s = <<>> THEN acc
    ELSE IF Head(s) = "_" THEN DigitsValue(Tail(s), acc)
    ELSE DigitsValue(Tail(s), 10 * acc + DigitVal(Head(s)))
Unsigned(s) == IF s # <<>> /\ Head(s) \in {"+", "-"} THEN Tail(s) ELSE s
\* int(s) succeeds
IsIntLiteral(s) == IsDigitPart(Unsigned(strip(s)))
Signed(u, v) == IF u # <<>> /\ Head(u) = "-" THEN 0 - v ELSE v
\* int(s)
ParseInt(s) == Signed(strip(s), DigitsValue(Unsigned(strip(s)), 0))

EmptyOrDigitPart(s) == s = <<>> \/ IsDigitPart(s)
\* the mantissa of a decimal float: digits, digits.digits, digits. or .digits
IsMantissa(m) ==
    IF Has(m, ".")
    THEN /\ EmptyOrDigitPart(Before(m, "."))
         /\ EmptyOrDigitPart(After(m, "."))
         /\ Len(m) > 1
    ELSE IsDigitPart(m)
IsFloatText(u) ==
    \/ u \in {<<"i","n","f">>, <<"i","n","f","i","n","i","t","y">>, <<"n","a","n">>}
    \/ IsMantissa(Before(u, "e")) /\ (~Has(u, "e") \/ IsDigitPart(Unsigned(After(u, "e"))))
\* float(s) succeeds
IsFloatLiteral(s) == IsFloatText(lower(Unsigned(strip(s))))

\* str(n) for an integer
RECURSIVE NatToStr(_)
NatToStr(n) == IF n < 10 THEN <<Digits[n + 1]>> ELSE NatToStr(n \div 10) \o <<Digits[(n % 10) + 1]>>
IntToStr(n) == IF n < 0 THEN <<"-">> \o NatToStr(0 - n) ELSE NatToStr(n)
\* str(value)
py_str(v) ==
    CASE v.t = "str" -> v.s
      [] v.t = "bool" -> IF v.b THEN <<"T","r","u","e">> ELSE <<"F","a","l","s","e">>
      [] v.t = "none" -> <<"N","o","n","e">>
      [] v.t = "int" -> IntToStr(v.n)
      [] v.t = "float" -> v.s
      [] OTHER -> <<"{","}">>

(***************************************************************************)
(* NdfcTemplate: the template normalizer.  An operator handed the value    *)
(* Raised(e) hands it on: the exception propagates to the caller.          *)
(***************************************************************************)
\* NdfcTemplate.make_bool
make_bool(value) ==
    IF lower(py_str(value)) \in {<<"t","r","u","e">>, <<"y","e","s">>} THEN PyBool(TRUE)
    ELSE IF lower(py_str(value)) \in {<<"f","a","l","s","e">>, <<"n","o">>} THEN PyBool(FALSE)
    ELSE value

\* NdfcTemplate.clean_string up to the type interpretation: the strip and the
\* ten substitutions, in the order of the code
clean_text(s) ==
    LET s0 == strip(s)
        s1 == re_sub(<<"<","b","r"," ","/",">">>, <<" ">>, s0)
        s2 == re_sub(<<"&","#","3","9",";">>, <<>>, s1)
        s3 == re_sub(<<"&","#","4","3",";">>, <<"+">>, s2)
        s4 == re_sub(<<"&","#","6","1",";">>, <<"=">>, s3)
        s5 == re_sub(<<"a","m","p",";">>, <<>>, s4)
        s6 == re_sub(<<"[">>, <<>>, s5)
        s7 == re_sub(<<"]">>, <<>>, s6)
        s8 == re_sub(<<"\"">>, <<>>, s7)
        s9 == re_sub(<<"'">>, <<>>, s8)
    IN re_sub_spaces(s9)

\* the interpretation with the float tried before the integer
coerce_floatFirst(s) ==
    IF make_bool(PyStr(s)).t = "bool" THEN make_bool(PyStr(s))
    ELSE IF IsFloatLiteral(s) THEN PyFloat(lower(strip(s)))
    ELSE IF IsIntLiteral(s) THEN PyInt(ParseInt(s))
    ELSE PyStr(s)

\* NdfcTemplate.clean_string, the interpretation of the cleaned text: a
\* boolean, else an integer, else a float, else the text
coerce(s) ==
    IF make_bool(PyStr(s)).t = "bool" THEN make_bool(PyStr(s))
    ELSE IF IsIntLiteral(s) THEN PyInt(ParseInt(s))
    ELSE IF IsFloatLiteral(s) THEN PyFloat(lower(strip(s)))
    ELSE PyStr(s)

\* NdfcTemplate.clean_string
clean_string(string) ==
    IF IsExc(string) THEN string
    ELSE IF string = None THEN PyStr(<<>>)
    ELSE IF string.t # "str" THEN Raised("AttributeError")
    ELSE coerce(clean_text(string.s))

\* matching a pattern piece by piece: each step takes the text left to match
\* and returns what is left after the piece, or NoMatch
NoMatch == <<"no match">>
Literal(s, lit) ==
    IF s # NoMatch /\ StartsWith(s, lit) THEN Drop(s, Len(lit)) ELSE NoMatch
RECURSIVE DigitRun(_)
DigitRun(s) == IF s # <<>> /\ IsDigit(Head(s)) THEN 1 + DigitRun(Tail(s)) ELSE 0
\* \d+
SomeDigits(s) ==
    IF s # NoMatch /\ DigitRun(s) > 0 THEN Drop(s, DigitRun(s)) ELSE NoMatch
\* \s*
AnySpaces(s) == IF s = NoMatch THEN NoMatch ELSE LStrip(s)
\* \s* followed by one space: a run of whitespace that ends in a space
SpacesThenSpace(s) ==
    IF s # NoMatch /\ LStrip(s) # s /\ s[Len(s) - Len(LStrip(s))] = " "
    THEN LStrip(s) ELSE NoMatch
\* the text left at the first group: after "(Min:" and \s*
AtMin(s) == AnySpaces(Literal(s, <<"(","M","i","n",":">>))
\* the text left at the second group: after the first group, "," the spaces and
\* "Max:" and \s*. get_min_max has ",\s*Max:", clean_description ",\s* Max:"
AtMax(s, spaceBeforeMax) ==
    AnySpaces(Literal(IF spaceBeforeMax
                      THEN SpacesThenSpace(Literal(SomeDigits(AtMin(s)), <<",">>))
                      ELSE AnySpaces(Literal(SomeDigits(AtMin(s)), <<",">>)),
                      <<"M","a","x",":">>))
LengthTo(s, rest) == IF rest = NoMatch THEN 0 ELSE Len(s) - Len(rest)
\* the match with clean_description's pattern whatever the caller asks for:
\* get_min_max would miss "(Min:7,Max:8)"
MinMaxMatch_spaceBeforeMax(s, spaceBeforeMax) ==
    LengthTo(s, Literal(SomeDigits(AtMax(s, TRUE)), <<")">>))
\* the length of the match of the (Min: x, Max: y) pattern at the start of s, or 0
MinMaxMatch(s, spaceBeforeMax) ==
    LengthTo(s, Literal(SomeDigits(AtMax(s, spaceBeforeMax)), <<")">>))
\* the digits at the start of s
Group(s) == SubSeq(s, 1, DigitRun(s))

\* NdfcTemplate.clean_description, re.sub on the text
RECURSIVE clean_description_text(_)
clean_description_text(s) ==
    IF s = <<>> THEN <<>>
    ELSE IF MinMaxMatch(s, TRUE) > 0 THEN clean_description_text(Drop(s, MinMaxMatch(s, TRUE)))
    ELSE <<Head(s)>> \o clean_description_text(Tail(s))
\* NdfcTemplate.clean_description
clean_description(string) ==
    IF IsExc(string) THEN string
    ELSE IF string.t # "str" THEN Raised("TypeError")
    ELSE PyStr(clean_description_text(string.s))

\* NdfcTemplate.get_dict_value
RECURSIVE get_dict_value(_, _)
RECURSIVE get_dict_value_loop(_, _, _)
get_dict_value_loop(d, i, key) ==
    IF i > Len(d) THEN None
    ELSE IF d[i][2].t = "dict" /\ get_dict_value(d[i][2], key) # None
    THEN get_dict_value(d[i][2], key)
    ELSE get_dict_value_loop(d, i + 1, key)
\* the nested mappings searched before the keys of the mapping itself
get_dict_value_nestedFirst(it, key) ==
    IF it.t # "dict" THEN None
    ELSE IF get_dict_value_loop(it.d, 1, key) # None THEN get_dict_value_loop(it.d, 1, key)
    ELSE IF HasKey(it.d, key) THEN GetKey(it.d, key)
    ELSE None
get_dict_value(it, key) ==
    IF it.t # "dict" THEN None
    ELSE IF HasKey(it.d, key) THEN GetKey(it.d, key)
    ELSE get_dict_value_loop(it.d, 1, key)

\* item[k1][k2] inside try/except KeyError: the value, onKeyError for a
\* KeyError, or the TypeError of subscripting a value that is no mapping
Lookup2(it, k1, k2, onKeyError) ==
    IF ~HasKey(it.d, k1) THEN onKeyError
    ELSE IF GetKey(it.d, k1).t # "dict" THEN Raised("TypeError")
    ELSE IF ~HasKey(GetKey(it.d, k1).d, k2) THEN onKeyError
    ELSE GetKey(GetKey(it.d, k1).d, k2)

\* the except KeyError branch returns None, the other cleans the value
CleanedOrNone(result) == IF result = Unset THEN None ELSE clean_string(result)

\* NdfcTemplate.get_default_value_meta_properties
get_default_value_meta_properties(it) ==
    CleanedOrNone(Lookup2(it, "metaProperties", "defaultValue", Unset))

\* get_default_value_root taking an empty top-level defaultValue for none
get_default_value_root_nonEmpty(it) ==
    IF ~HasKey(it.d, "defaultValue") \/ GetKey(it.d, "defaultValue") = PyStr(<<>>) THEN None
    ELSE clean_string(GetKey(it.d, "defaultValue"))

\* NdfcTemplate.get_default_value_root
get_default_value_root(it) ==
    IF ~HasKey(it.d, "defaultValue") THEN None
    ELSE clean_string(GetKey(it.d, "defaultValue"))

\* the two locations consulted in the other order
IfNotNone_fallbackFirst(result, fallback) == IF fallback # None THEN fallback ELSE result
\* result if result is not None, else the fallback
IfNotNone(result, fallback) == IF result # None THEN result ELSE fallback

\* NdfcTemplate.get_default_value
get_default_value(it) ==
    IfNotNone(get_default_value_meta_properties(it), get_default_value_root(it))

NoDescription == <<"N","o"," ","d","e","s","c","r","i","p","t","i","o","n"," ","a","v","a","i","l","a","b","l","e">>

\* get_description with the empty string for an absent Description
get_description_emptyWhenAbsent(it) ==
    clean_description(clean_string(Lookup2(it, "annotations", "Description", PyStr(<<>>))))

\* NdfcTemplate.get_description
get_description(it) ==
    clean_description(clean_string(
        Lookup2(it, "annotations", "Description", PyStr(NoDescription))))

\* [int(x) for x in result]: the integers, or the list unchanged on ValueError
IntsOrSame(parts) ==
    IF \A i \in 1..Len(parts) : IsIntLiteral(parts[i])
    THEN PyList([i \in 1..Len(parts) |-> PyInt(ParseInt(parts[i]))])
    ELSE PyList([i \in 1..Len(parts) |-> PyStr(parts[i])])

\* result.split(",") and the conversion, on what clean_string returned
SplitEnum(cleaned) ==
    IF IsExc(cleaned) THEN cleaned
    ELSE IF cleaned.t # "str" THEN Raised("AttributeError")
    ELSE IntsOrSame(split(cleaned.s, ","))
EnumOfValue(result) == IF result = None THEN PyList(<<>>) ELSE SplitEnum(clean_string(result))

\* NdfcTemplate.get_enum
get_enum(it) == EnumOfValue(get_dict_value(it, "Enum"))

\* re.search of get_min_max's pattern: offset of the leftmost match, or -1
RECURSIVE MinMaxSearch(_, _)
MinMaxSearch(s, from) ==
    IF from > Len(s) THEN 0 - 1
    ELSE IF MinMaxMatch(Drop(s, from), FALSE) > 0 THEN from
    ELSE MinMaxSearch(s, from + 1)

\* int(m.group(1)), int(m.group(2)) for the match at the start of s
MinMaxGroups(s) ==
    PyTuple(<<PyInt(ParseInt(Group(AtMin(s)))), PyInt(ParseInt(Group(AtMax(s, FALSE))))>>)
MinMaxFound(s, at) ==
    IF at >= 0 THEN MinMaxGroups(Drop(s, at)) ELSE PyTuple(<<None, None>>)
MinMaxOfValue(result) ==
    IF result = None THEN PyTuple(<<None, None>>)
    ELSE IF result.t # "str" THEN Raised("TypeError")
    ELSE MinMaxFound(result.s, MinMaxSearch(result.s, 0))

\* NdfcTemplate.get_min_max
get_min_max(it) == MinMaxOfValue(get_dict_value(it, "Description"))

\* NdfcTemplate.get_name
get_name(it) ==
    IF ~HasKey(it.d, "name") THEN clean_string(PyStr(<<"u","n","k","n","o","w","n">>))
    ELSE clean_string(GetKey(it.d, "name"))

\* NdfcTemplate.is_internal
is_internal(it) == make_bool(get_dict_value(it, "IsInternal"))

\* NdfcTemplate._init_translation
parameter_type_translation ==
    << <<<<"b","o","o","l">>, <<"b","o","o","l">>>>, <<<<"b","o","o","l","e","a","n">>, <<"b","o","o","l">>>>, <<<<"B","O","O","L","E","A","N">>, <<"b","o","o","l">>>>,
       <<<<"e","n","u","m">>, <<"s","t","r">>>>, <<<<"i","n","t">>, <<"i","n","t">>>>, <<<<"i","n","t","e","g","e","r">>, <<"i","n","t">>>>,
       <<<<"I","N","T">>, <<"i","n","t">>>>, <<<<"I","N","T","E","G","E","R">>, <<"i","n","t">>>>, <<<<"i","n","t","e","r","f","a","c","e","R","a","n","g","e">>, <<"s","t","r">>>>,
       <<<<"i","n","t","e","g","e","r","R","a","n","g","e">>, <<"s","t","r">>>>, <<<<"i","p","A","d","d","r","e","s","s">>, <<"s","t","r">>>>,
       <<<<"i","p","A","d","d","r","e","s","s","L","i","s","t">>, <<"s","t","r">>>>, <<<<"i","p","V","4","A","d","d","r","e","s","s">>, <<"s","t","r">>>>,
       <<<<"i","p","V","4","A","d","d","r","e","s","s","W","i","t","h","S","u","b","n","e","t">>, <<"s","t","r">>>>, <<<<"i","p","V","6","A","d","d","r","e","s","s">>, <<"s","t","r">>>>,
       <<<<"i","p","V","6","A","d","d","r","e","s","s","W","i","t","h","S","u","b","n","e","t">>, <<"s","t","r">>>>, <<<<"i","p","v","4">>, <<"s","t","r">>>>, <<<<"i","p","v","6">>, <<"s","t","r">>>>,
       <<<<"i","p","v","4","_","s","u","b","n","e","t">>, <<"s","t","r">>>>, <<<<"i","p","v","6","_","s","u","b","n","e","t">>, <<"s","t","r">>>>, <<<<"l","i","s","t">>, <<"l","i","s","t">>>>,
       <<<<"m","a","c","A","d","d","r","e","s","s">>, <<"s","t","r">>>>, <<<<"s","t","r">>, <<"s","t","r">>>>, <<<<"s","t","r","i","n","g">>, <<"s","t","r">>>>,
       <<<<"s","t","r","i","n","g","[","]">>, <<"s","t","r">>>>, <<<<"S","T","R","I","N","G">>, <<"s","t","r">>>>, <<<<"s","t","r","u","c","t","u","r","e","A","r","r","a","y">>, <<"l","i","s","t">>>> >>

\* the parameterType as it is, the table ignored
Translated_asIs(result) == result
Translated(result) ==
    IF result = None THEN None
    ELSE IF result.t = "str" /\ HasKey(parameter_type_translation, result.s)
    THEN PyStr(GetKey(parameter_type_translation, result.s))
    ELSE result

\* get_parameter_type with the parameterType cleaned before the lookup
get_parameter_type_cleaned(it) == Translated(clean_string(get_dict_value(it, "parameterType")))

\* NdfcTemplate.get_parameter_type
get_parameter_type(it) == Translated(get_dict_value(it, "parameterType"))

\* NdfcTemplate.get_section
get_section(it) == clean_string(get_dict_value(it, "Section"))

\* "Hidden" in result
HiddenIn(result) ==
    IF IsExc(result) THEN result
    ELSE IF result.t # "str" THEN Raised("TypeError")
    ELSE PyBool(Contains(result.s, <<"H","i","d","d","e","n">>))

\* NdfcTemplate.is_hidden
is_hidden(it) == HiddenIn(get_section(it))

\* item.get(key, None)
item_get(it, key) == IF HasKey(it.d, key) THEN GetKey(it.d, key) ELSE None

\* NdfcTemplate.is_required, from the default value and make_bool(optional)
RequiredFrom(default, result) ==
    IF IsExc(default) THEN default
    ELSE IF default # None \/ default # PyStr(<<>>) THEN PyBool(FALSE)
    ELSE IF result = PyBool(TRUE) THEN PyBool(FALSE)
    ELSE IF result = PyBool(FALSE) THEN PyBool(TRUE)
    ELSE None

\* NdfcTemplate.is_required
is_required(it) == RequiredFrom(get_default_value(it), make_bool(item_get(it, "optional")))

(***************************************************************************)
(* Inputs of the normalizer: descriptors and texts built from fragments    *)
(***************************************************************************)
\* fragments concatenated into one text
MaxFrags == 2

RECURSIVE Words(_, _)
Words(frags, n) ==
    IF n = 0 THEN {<<>>}
    ELSE Words(frags, n - 1) \cup {w \o f : w \in Words(frags, n - 1), f \in frags}

Opt(k, v) == IF v = Unset THEN <<>> ELSE << <<k, v>> >>
Texts(frags) == {PyStr(w) : w \in Words(frags, MaxFrags)}

DefaultFrags == {<<"5">>, <<" ">>, <<"n","o">>}
DefaultItems ==
    {PyDict(Opt("optional", o) \o Opt("defaultValue", r) \o Opt("metaProperties", m)) :
        o \in {Unset, PyBool(TRUE), PyBool(FALSE)},
        r \in {Unset} \cup Texts(DefaultFrags),
        m \in {Unset, PyDict(<<>>)}
              \cup {PyDict(<< <<"defaultValue", v>> >>) : v \in Texts(DefaultFrags)}}

AnnotationItems(key, frags) ==
    {PyDict(<< <<"name", PyStr(<<"P">>)>> >>),
     PyDict(<< <<"name", PyStr(<<"P">>)>>, <<"annotations", PyDict(<<>>)>> >>)}
    \cup {PyDict(<< <<"name", PyStr(<<"P">>)>>, <<"annotations", PyDict(<< <<key, v>> >>)>> >>) :
            v \in Texts(frags)}

DescriptionFrags ==
    {<<"(","M","i","n",":"," ","2",","," ","M","a","x",":"," ","3","6",")">>, <<"(","M","i","n",":","7",",","M","a","x",":","8",")">>, <<"(","M","i","n",":","3",","," "," ","M","a","x",":","4",")">>, <<"(","M","i","n",":"," ","5">>,
     <<","," ","M","a","x",":","6",")">>, <<"H","o","l","d"," ","t","i","m","e","r"," ">>, <<"y","e","s">>}
EnumFrags == {<<"1">>, <<",">>, <<"a">>, <<"2",",","3">>, <<",","b",",","c">>, <<"y","e","s">>, <<" ">>}
SectionFrags == {<<"H","i","d","d","e","n">>, <<"H","i","d">>, <<"d","e","n">>, <<"[">>, <<"4","2">>, <<"t","r","u","e">>, <<"G","e","n","e","r","a","l"," ">>}
CleanFrags ==
    {<<"a">>, <<" ","a">>, <<" ">>, <<"\t">>, <<"[">>, <<"]">>, <<"\"">>, <<"'">>, <<"&","a","m","p",";">>, <<"a","m","p",";">>,
     <<"#","3","9",";">>, <<"&","#","3","9",";">>, <<"&","#","4","3",";">>, <<"&","#","6","1",";">>, <<"<","b","r"," ","/",">">>, <<"t","r","u","e">>, <<"Y","e","s">>, <<"n","o">>,
     <<"4","2">>, <<"-">>, <<"1",".","5">>}

InternalFrags == {<<"t","r","u","e">>, <<"Y","e","s">>, <<"f","a","l","s","e">>, <<"N","O">>, <<"m","a","y","b","e">>, <<" ">>, <<"0">>}
TypeFrags == {<<"s","t","r","i","n","g">>, <<"[","]">>, <<"i","n","t","e","g","e","r">>, <<"R","a","n","g","e">>, <<"B","O","O","L","E","A","N">>, <<"l","o","n","g">>, <<" ">>}
\* descriptors with a parameterType, or none
TypeItems ==
    {PyDict(<< <<"name", PyStr(<<"P">>)>> >> \o Opt("parameterType", v)) : v \in Texts(TypeFrags)}
\* mappings nested in mappings, with the key "k" at several levels and in
\* several orders: under "a" and "c", before or after them, two levels down
\* under "b", inside a list, and with the value None
Nested2 == {PyDict(Opt("k", v)) : v \in {Unset, None, PyInt(7)}}
Nested1 ==
    {PyDict(Opt("k", v) \o Opt("b", w)) :
        v \in {Unset, None, PyInt(1), PyInt(2)}, w \in {Unset} \cup Nested2}
NestedItems ==
    {PyDict(Opt("k", own[1]) \o Opt("a", a) \o Opt("c", c) \o Opt("k", own[2])) :
        own \in {<<Unset, Unset>>, <<None, Unset>>, <<PyInt(9), Unset>>, <<Unset, None>>,
                 <<Unset, PyInt(9)>>},
        a \in {Unset, PyInt(0), PyList(<<PyDict(<< <<"k", PyInt(3)>> >>)>>)} \cup Nested1,
        c \in {Unset, PyDict(<< <<"k", PyInt(1)>> >>), PyDict(<< <<"k", None>> >>),
               PyDict(<< <<"b", PyDict(<< <<"k", PyInt(7)>> >>)>> >>)}}
Descriptors ==
    NestedItems \cup DefaultItems \cup AnnotationItems("Description", DescriptionFrags)
    \cup AnnotationItems("Enum", EnumFrags) \cup AnnotationItems("Section", SectionFrags)
    \cup AnnotationItems("IsInternal", InternalFrags) \cup TypeItems
CleanInputs == {None} \cup Texts(CleanFrags)

(***************************************************************************)
(* The normalizer applied to one descriptor (item) or one text (arg)       *)
(***************************************************************************)
BuilderInit ==
    /\ module_name = None
    /\ module_author = None
    /\ module_states = None
    /\ module_default_state = None
    /\ template_all = None
    /\ template_dict = Unset
    /\ template = None
    /\ translation = Unset
    /\ documentation = PyDict(<< <<"options", PyDict(<<>>)>> >>)

\* NdfcTemplate._init_properties: no file named, and no file opened yet
FileInit == template_json_file = None /\ opened = <<>>

\* the environment with the three login variables exported
LoginEnviron ==
    PyDict(<< <<"NDFC_IP4", PyStr(<<"1","0",".","1",".","1",".","1">>)>>, <<"NDFC_PASSWORD", PyStr(<<"p","w">>)>>,
              <<"NDFC_USERNAME", PyStr(<<"a","d","m","i","n">>)>> >>)

\* NDFC._init_properties
init_properties ==
    PyDict(<< <<"request_verify", PyBool(FALSE)>>, <<"request_timeout", PyInt(20)>>,
              <<"verb", None>> >>)

\* NDFC.__init__ without the login properties: no request was sent yet
ClientInit ==
    /\ response = None
    /\ headers = PyDict(<<>>)
    /\ bearer_token = None
    /\ auth_token = None
    /\ properties = init_properties
    /\ login_request = None

\* NDFC.__init__ in the environment LoginEnviron
NdfcInit ==
    /\ environ = LoginEnviron
    /\ ip4 = GetKey(environ.d, "NDFC_IP4")
    /\ password = GetKey(environ.d, "NDFC_PASSWORD")
    /\ username = GetKey(environ.d, "NDFC_USERNAME")
    /\ ClientInit

InitNorm ==
    /\ \/ item \in Descriptors /\ arg = Unset
       \/ item = Unset /\ arg \in CleanInputs
    /\ op = "init"
    /\ ret = None
    /\ BuilderInit
    /\ NdfcInit
    /\ printed = None
    /\ FileInit

Call(name, value) ==
    /\ item # Unset
    /\ op' = name
    /\ ret' = value
    /\ UNCHANGED <<item, arg>>
    /\ UNCHANGED builderVars
    /\ UNCHANGED ndfcVars
    /\ UNCHANGED ioVars
    /\ UNCHANGED fileVars

CallCleanString ==
    /\ arg # Unset
    /\ op' = "clean_string"
    /\ ret' = clean_string(arg)
    /\ UNCHANGED <<item, arg>>
    /\ UNCHANGED builderVars
    /\ UNCHANGED ndfcVars
    /\ UNCHANGED ioVars
    /\ UNCHANGED fileVars

\* the value clean_string returned is passed to clean_string again
CallCleanStringAgain ==
    /\ op = "clean_string"
    /\ ~IsExc(ret)
    /\ op' = "clean_string_again"
    /\ arg' = ret
    /\ ret' = clean_string(ret)
    /\ UNCHANGED item
    /\ UNCHANGED builderVars
    /\ UNCHANGED ndfcVars
    /\ UNCHANGED ioVars
    /\ UNCHANGED fileVars

CallIsRequired == Call("is_required", is_required(item))
CallGetDefaultValue == Call("get_default_value", get_default_value(item))
CallGetDescription == Call("get_description", get_description(item))
CallGetEnum == Call("get_enum", get_enum(item))
CallGetMinMax == Call("get_min_max", get_min_max(item))
CallIsHidden == Call("is_hidden", is_hidden(item))
CallGetParameterType == Call("get_parameter_type", get_parameter_type(item))
CallIsInternal == Call("is_internal", is_internal(item))
\* get_dict_value(item, "k")
CallGetDictValue == Call("get_dict_value", get_dict_value(item, "k"))

NextNorm ==
    \/ CallCleanString
    \/ CallCleanStringAgain
    \/ CallIsRequired
    \/ CallGetDefaultValue
    \/ CallGetDescription
    \/ CallGetEnum
    \/ CallGetMinMax
    \/ CallIsHidden
    \/ CallGetParameterType
    \/ CallIsInternal
    \/ CallGetDictValue

SpecNorm == InitNorm /\ [][NextNorm]_vars
(***************************************************************************)
(* NdfcTemplates: the all-templates index                                  *)
(***************************************************************************)
\* an NdfcTemplates instance; idx is its template attribute (None before load())
NdfcTemplates(idx) == [t |-> "NdfcTemplates", template |-> idx]

\* [x.strip() for x in tags]
StripAll(parts) == [k \in 1..Len(parts) |-> strip(parts[k])]
\* tags.split(",") and the strip of each, on what clean_string returned
SplitTags(cleaned) ==
    IF IsExc(cleaned) THEN cleaned
    ELSE IF cleaned.t # "str" THEN Raised("AttributeError")
    ELSE PyList(StripAll(split(cleaned.s, ",")))
\* the tags of one entry of the index: None, the list, or the exception raised
TagsOf(tags) == IF tags = None THEN None ELSE SplitTags(clean_string(tags))
IsIn(x, l) == \E k \in 1..Len(l) : l[k] = x

\* NdfcTemplates.get_template_names_by_tag, the loop over self.template
RECURSIVE get_template_names_loop(_, _, _, _)
RECURSIVE get_template_names_step(_, _, _, _, _)
get_template_names_step(idx, i, tag, names, tags) ==
    IF tags = None THEN get_template_names_loop(idx, i + 1, tag, names)
    ELSE IF IsExc(tags) THEN tags
    ELSE IF ~IsIn(tag, tags.l) THEN get_template_names_loop(idx, i + 1, tag, names)
    ELSE get_template_names_loop(idx, i + 1, tag, Append(names, item_get(idx[i][2], "name")))
get_template_names_loop(idx, i, tag, names) ==
    IF i > Len(idx) THEN PyList(names)
    ELSE get_template_names_step(idx, i, tag, names, TagsOf(item_get(idx[i][2], "tags")))

\* NdfcTemplates.get_template_names_by_tag
get_template_names_by_tag(tall, tag) ==
    IF tall.template = None THEN Raised("ValueError")
    ELSE get_template_names_loop(tall.template.d, 1, tag, <<>>)

(***************************************************************************)
(* NdfcDocBuilder                                                          *)
(***************************************************************************)
\* NdfcDocBuilder.__init__: self._valid_ansible_states
valid_ansible_states == <<<<"d","e","l","e","t","e","d">>, <<"m","e","r","g","e","d">>, <<"o","v","e","r","r","i","d","d","e","n">>, <<"q","u","e","r","y">>, <<"r","e","p","l","a","c","e","d">>>>
\* every value taken for a state
IsValidState_any(v) == TRUE
IsValidState(v) == v.t = "str" /\ \E i \in 1..Len(valid_ansible_states) : valid_ansible_states[i] = v.s

\* NdfcDocBuilder.init_translation: typo_keys
typo_keys ==
    << <<<<"D","E","A","F","U","L","T","_","Q","U","E","U","I","N","G","_","P","O","L","I","C","Y","_","C","L","O","U","D","S","C","A","L","E">>, <<"D","E","F","A","U","L","T","_","Q","U","E","U","I","N","G","_","P","O","L","I","C","Y","_","C","L","O","U","D","S","C","A","L","E">>>>,
       <<<<"D","E","A","F","U","L","T","_","Q","U","E","U","I","N","G","_","P","O","L","I","C","Y","_","O","T","H","E","R">>, <<"D","E","F","A","U","L","T","_","Q","U","E","U","I","N","G","_","P","O","L","I","C","Y","_","O","T","H","E","R">>>>,
       <<<<"D","E","A","F","U","L","T","_","Q","U","E","U","I","N","G","_","P","O","L","I","C","Y","_","R","_","S","E","R","I","E","S">>, <<"D","E","F","A","U","L","T","_","Q","U","E","U","I","N","G","_","P","O","L","I","C","Y","_","R","_","S","E","R","I","E","S">>>> >>

\* the translation left as it is, whatever the name
WithTypo_unrecorded(trans, name) == trans
\* if name in typo_keys: self.translation[name] = typo_keys[name]
WithTypo(trans, name) ==
    IF name.t = "str" /\ HasKey(typo_keys, name.s)
    THEN SetKey(trans, name.s, GetKey(typo_keys, name.s))
    ELSE trans

\* NdfcDocBuilder.init_translation, the loop over the parameters: the
\* translation built so far and the exception that ended the loop, if any
RECURSIVE init_translation_loop(_, _, _)
RECURSIVE init_translation_step(_, _, _, _, _, _)
init_translation_step(params, i, trans, internal, hidden, name) ==
    IF Truthy(internal) THEN init_translation_loop(params, i + 1, trans)
    ELSE IF IsExc(hidden) THEN [translation |-> trans, exc |-> hidden]
    ELSE IF hidden.b THEN init_translation_loop(params, i + 1, trans)
    ELSE IF IsExc(name) THEN [translation |-> trans, exc |-> name]
    ELSE IF ~Truthy(name) THEN init_translation_loop(params, i + 1, trans)
    ELSE init_translation_loop(params, i + 1, WithTypo(trans, name))
init_translation_loop(params, i, trans) ==
    IF i > Len(params) THEN [translation |-> trans, exc |-> None]
    ELSE init_translation_step(params, i, trans, is_internal(params[i]),
                               is_hidden(params[i]), get_name(params[i]))

\* for item in self.ndfc_template.template.get("parameters")
OverParameters(params) ==
    IF params.t # "list" THEN [translation |-> <<>>, exc |-> Raised("TypeError")]
    ELSE init_translation_loop(params.l, 1, <<>>)

\* NdfcDocBuilder.init_translation, once the template is loaded
init_translation(tmpl) == OverParameters(item_get(tmpl, "parameters"))

\* code-point order of the printable ASCII characters
\* (the grave accent, which a TLA+ string cannot hold, is written "GRAVE")
AsciiChars ==
    <<" ","!","\"","#","$","%","&","'","(",")","*","+",",","-",".","/","0","1","2","3","4","5","6","7","8","9",":",";","<","=",">","?">> \o <<"@">>
    \o <<"A","B","C","D","E","F","G","H","I","J","K","L","M","N","O","P","Q","R","S","T","U","V","W","X","Y","Z","[","\\","]","^","_">> \o <<"GRAVE">>
    \o <<"a","b","c","d","e","f","g","h","i","j","k","l","m","n","o","p","q","r","s","t","u","v","w","x","y","z","{","|","}","~">>
Ord(c) == CHOOSE i \in 1..Len(AsciiChars) : AsciiChars[i] = c
\* a < b on str
StrLess(a, b) ==
    \E k \in 1..(Len(a) + 1) :
        /\ k <= Len(b)
        /\ \A j \in 1..(k - 1) : a[j] = b[j]
        /\ (k = Len(a) + 1 \/ Ord(a[k]) < Ord(b[k]))
\* the keys left in insertion order
sorted_asInserted(keys) == keys
\* sorted(keys)
RECURSIVE sorted(_)
sorted(keys) ==
    IF keys = <<>> THEN <<>>
    ELSE LET m == CHOOSE i \in 1..Len(keys) : \A j \in 1..Len(keys) : ~StrLess(keys[j], keys[i])
         IN <<keys[m]>> \o sorted([j \in 1..(Len(keys) - 1) |-> IF j < m THEN keys[j] ELSE keys[j + 1]])

\* tag = str(choices[0]).split(".")[1] and the names of the templates with the tag
TagChoices(parts, tall) ==
    IF Len(parts) < 2 THEN Raised("IndexError")
    ELSE get_template_names_by_tag(tall, parts[2])
\* the enum list kept as the choices, marker or not
TemplateChoices_asListed(choices, first, tall) == choices
\* if "TEMPLATES" in str(choices[0])
TemplateChoices(choices, first, tall) ==
    IF ~Contains(first, <<"T","E","M","P","L","A","T","E","S">>) THEN choices
    ELSE TagChoices(split(first, "."), tall)
\* NdfcDocBuilder.commit, the choices of one parameter (lines 347-352): the
\* list to store, Unset when there is nothing to store, or the exception raised
Choices(choices, tall) ==
    IF IsExc(choices) THEN choices
    ELSE IF Len(choices.l) = 0 THEN Unset
    ELSE TemplateChoices(choices, py_str(choices.l[1]), tall)

\* if description is None or description == "": the literal
DescriptionOrLiteral(description) ==
    IF description = None \/ description = PyStr(<<>>) THEN PyStr(NoDescription)
    ELSE description

\* NdfcDocBuilder.commit, the suboption of one surviving parameter from what
\* the normalizer returned, or the first exception raised on the way
SuboptionOf(description, type, required, default, choices) ==
    IF IsExc(description) THEN description
    ELSE IF IsExc(required) THEN required
    ELSE IF IsExc(default) THEN default
    ELSE IF IsExc(choices) THEN choices
    ELSE PyDict(<< <<"description", PyList(<<DescriptionOrLiteral(description)>>)>>,
                   <<"type", type>>,
                   <<"required", required>> >>
                \o (IF default # None THEN << <<"default", default>> >> ELSE <<>>)
                \o Opt("choices", choices))

\* NdfcDocBuilder.commit, lines 325-352 for one surviving parameter
Suboption(it, tall) ==
    SuboptionOf(get_description(it), get_parameter_type(it), is_required(it),
                get_default_value(it), Choices(get_enum(it), tall))

\* the name of the parameter as it is, the translation ignored
TranslatedName_asIs(trans, name) == name.s
\* self.translation.get(item['name'], item['name'])
TranslatedName(trans, name) ==
    IF HasKey(trans, name.s) THEN GetKey(trans, name.s) ELSE name.s

\* NdfcDocBuilder.commit, the loop over the parameters (lines 316-352): the
\* suboptions in insertion order, or the exception that ended the loop
RECURSIVE commit_loop(_, _, _, _, _)
RECURSIVE commit_step(_, _, _, _, _, _, _, _)
commit_step(params, i, trans, tall, suboptions, internal, hidden, sub) ==
    IF Truthy(internal) THEN commit_loop(params, i + 1, trans, tall, suboptions)
    ELSE IF IsExc(hidden) THEN hidden
    ELSE IF hidden.b THEN commit_loop(params, i + 1, trans, tall, suboptions)
    ELSE IF ~Truthy(item_get(params[i], "name"))
    THEN commit_loop(params, i + 1, trans, tall, suboptions)
    ELSE IF IsExc(sub) THEN sub
    ELSE commit_loop(params, i + 1, trans, tall,
                     SetKey(suboptions, TranslatedName(trans, item_get(params[i], "name")), sub))
commit_loop(params, i, trans, tall, suboptions) ==
    IF i > Len(params) THEN PyDict(suboptions)
    ELSE commit_step(params, i, trans, tall, suboptions, is_internal(params[i]),
                     is_hidden(params[i]), Suboption(params[i], tall))

\* suboptions.keys()
Keys(d) == [i \in 1..Len(d) |-> d[i][1]]
\* the entries of suboptions re-inserted in the order of keys
Reinserted(suboptions, keys) == [i \in 1..Len(keys) |-> <<keys[i], GetKey(suboptions, keys[i])>>]
\* lines 354-356: the suboptions re-inserted in sorted key order
SortedSuboptions(suboptions) == Reinserted(suboptions, sorted(Keys(suboptions)))

\* documentation[k] = v, documentation["options"][k] = v
DocSet(doc, k, v) == PyDict(SetKey(doc.d, k, v))
OptionSet(doc, k, v) == DocSet(doc, "options", DocSet(GetKey(doc.d, "options"), k, v))

\* the state option with the first of the module's states as its default
StateOption_defaultFirstChoice ==
    PyDict(<< <<"description", PyList(<<PyStr(<<"T","h","e"," ","s","t","a","t","e"," ","o","f"," ","D","C","N","M"," ","a","f","t","e","r"," ","m","o","d","u","l","e"," ","c","o","m","p","l","e","t","i","o","n">>)>>)>>,
              <<"type", PyStr(<<"s","t","r">>)>>,
              <<"choices", module_states>>,
              <<"default", IF module_states.l = <<>> THEN None ELSE module_states.l[1]>> >>)

\* NdfcDocBuilder.add_module_state: documentation["options"]["state"]
StateOption ==
    PyDict(<< <<"description", PyList(<<PyStr(<<"T","h","e"," ","s","t","a","t","e"," ","o","f"," ","D","C","N","M"," ","a","f","t","e","r"," ","m","o","d","u","l","e"," ","c","o","m","p","l","e","t","i","o","n">>)>>)>>,
              <<"type", PyStr(<<"s","t","r">>)>>,
              <<"choices", module_states>>,
              <<"default", module_default_state>> >>)

\* NdfcDocBuilder.commit: documentation["options"]["config"] (lines 308-314, 354-356)
ConfigOption(suboptions) ==
    PyDict(<< <<"description", PyList(<<PyStr(<<"A"," ","l","i","s","t"," ","o","f"," ","f","a","b","r","i","c"," ","c","o","n","f","i","g","u","r","a","t","i","o","n"," ","d","i","c","t","i","o","n","a","r","i","e","s">>)>>)>>,
              <<"type", PyStr(<<"l","i","s","t">>)>>,
              <<"elements", PyStr(<<"d","i","c","t">>)>>,
              <<"suboptions", PyDict(suboptions)>> >>)

\* what commit leaves behind: the documentation, the normalizer's template, the
\* translation, and how it ended (None: it returned)
Out(doc, tmpl, trans, how) ==
    [documentation |-> doc, template |-> tmpl, translation |-> trans, ret |-> how]

\* NdfcDocBuilder.add_module_name, add_module_author, add_module_description
\* and add_module_state, past their checks
add_module_name(doc) == DocSet(doc, "module", module_name)
add_module_author(doc) == DocSet(doc, "author", module_author)
\* add_module_description appending to the description already there
add_module_description_appending(doc) ==
    DocSet(doc, "description",
           PyList((IF HasKey(doc.d, "description") THEN GetKey(doc.d, "description").l ELSE <<>>)
                  \o <<PyStr(<<"M","a","n","a","g","e"," ","c","r","e","a","t","i","o","n"," ","a","n","d"," ","c","o","n","f","i","g","u","r","a","t","i","o","n"," ","o","f"," ","N","D","F","C"," ","f","a","b","r","i","c","s",".">>)>>))
add_module_description(doc) ==
    DocSet(doc, "description",
           PyList(<<PyStr(<<"M","a","n","a","g","e"," ","c","r","e","a","t","i","o","n"," ","a","n","d"," ","c","o","n","f","i","g","u","r","a","t","i","o","n"," ","o","f"," ","N","D","F","C"," ","f","a","b","r","i","c","s",".">>)>>))
add_module_state(doc) == OptionSet(doc, "state", StateOption)

\* NdfcDocBuilder.commit, lines 308-356: the config option is stored empty, then
\* the loop runs, then the sorted suboptions are stored
commit_config(doc, trans, suboptions) ==
    IF IsExc(suboptions)
    THEN Out(OptionSet(doc, "config", ConfigOption(<<>>)), template_dict, trans, suboptions)
    ELSE Out(OptionSet(doc, "config", ConfigOption(SortedSuboptions(suboptions.d))),
             template_dict, trans, None)

\* NdfcDocBuilder.commit, lines 304-356, from the documentation doc
commit_options(doc, trans) ==
    commit_config(add_module_state(doc), trans,
                  commit_loop(item_get(template_dict, "parameters").l, 1, trans,
                              template_all, <<>>))
\* the states checked before the description is written
commit_description_checkedFirst(doc, trans) ==
    IF module_states = None \/ module_default_state = None
    THEN Out(doc, template_dict, trans, Raised("ValueError"))
    ELSE commit_options(add_module_description(doc), trans)
commit_description(doc, trans) ==
    IF module_states = None \/ module_default_state = None
    THEN Out(add_module_description(doc), template_dict, trans, Raised("ValueError"))
    ELSE commit_options(add_module_description(doc), trans)
\* commit going on without an author
commit_author_unchecked(doc, trans) == commit_description(add_module_author(doc), trans)
commit_author(doc, trans) ==
    IF module_author = None THEN Out(doc, template_dict, trans, Raised("ValueError"))
    ELSE commit_description(add_module_author(doc), trans)
commit_name(trans) ==
    IF module_name = None THEN Out(documentation, template_dict, trans, Raised("ValueError"))
    ELSE commit_author(add_module_name(documentation), trans)

\* NdfcDocBuilder.commit, lines 300-356, after validate_base_prerequisites
commit_validated(tr) ==
    IF tr.exc # None THEN Out(documentation, template_dict, tr.translation, tr.exc)
    ELSE IF template_all = None THEN Out(documentation, template_dict, tr.translation, SysExit(1))
    ELSE commit_name(tr.translation)

\* NdfcDocBuilder.commit with validate_base_prerequisites, NdfcTemplate.load and
\* init_translation
commit ==
    IF template_dict = Unset
    THEN Out(documentation, template, translation, Raised("AttributeError"))
    ELSE IF template_dict = None
    THEN Out(documentation, template, translation, SysExit(1))
    ELSE commit_validated(init_translation(template_dict))

(***************************************************************************)
(* Inputs of the builder                                                   *)
(***************************************************************************)
\* parameters of one template
MaxParams == 2

\* the parameters a template is made of
BuilderParams ==
    {
     \* a plain parameter
     PyDict(<< <<"name", PyStr(<<"B","G","P","_","A","S">>)>>, <<"optional", PyBool(FALSE)>>,
               <<"parameterType", PyStr(<<"s","t","r","i","n","g">>)>>,
               <<"annotations", PyDict(<< <<"Description", PyStr(<<"B","G","P"," ","A","S"," ","(","M","i","n",":"," ","1",","," ","M","a","x",":"," ","9",")">>)>>,
                                          <<"IsInternal", PyStr(<<"f","a","l","s","e">>)>> >>)>> >>),
     \* a second parameter of the same name
     PyDict(<< <<"name", PyStr(<<"B","G","P","_","A","S">>)>>, <<"parameterType", PyStr(<<"b","o","o","l","e","a","n">>)>>,
               <<"metaProperties", PyDict(<< <<"defaultValue", PyStr(<<"f","a","l","s","e">>)>> >>)>> >>),
     \* an internal parameter
     PyDict(<< <<"name", PyStr(<<"F","A","B","R","I","C","_","T","Y","P","E">>)>>, <<"parameterType", PyStr(<<"s","t","r","i","n","g">>)>>,
               <<"annotations", PyDict(<< <<"IsInternal", PyStr(<<"t","r","u","e">>)>> >>)>> >>),
     \* a hidden parameter
     PyDict(<< <<"name", PyStr(<<"B","R","F","I","E","L","D","_","D","E","B","U","G","_","F","L","A","G">>)>>, <<"parameterType", PyStr(<<"e","n","u","m">>)>>,
               <<"annotations", PyDict(<< <<"Section", PyStr(<<"\"","H","i","d","d","e","n","\"">>)>>,
                                          <<"Description", PyStr(<<>>)>> >>)>> >>),
     \* a parameter without a name
     PyDict(<< <<"parameterType", PyStr(<<"b","o","o","l","e","a","n">>)>>,
               <<"annotations", PyDict(<< <<"Section", PyStr(<<"G","e","n","e","r","a","l">>)>> >>)>> >>),
     \* a parameter with an empty name
     PyDict(<< <<"name", PyStr(<<>>)>>, <<"parameterType", PyStr(<<"s","t","r","i","n","g">>)>> >>),
     \* a parameter whose name is in typo_keys, its type not one of the translation
     \* table, its choices the templates of a tag
     PyDict(<< <<"name", PyStr(<<"D","E","A","F","U","L","T","_","Q","U","E","U","I","N","G","_","P","O","L","I","C","Y","_","O","T","H","E","R">>)>>,
               <<"parameterType", PyStr(<<"l","o","n","g">>)>>,
               <<"annotations", PyDict(<< <<"Enum", PyStr(<<"%","T","E","M","P","L","A","T","E","S",".","Q","o","S","_","O","t","h","e","r">>)>>,
                                          <<"Description", PyStr(<<>>)>> >>)>> >>),
     \* a parameter with the corrected form of that name
     PyDict(<< <<"name", PyStr(<<"D","E","F","A","U","L","T","_","Q","U","E","U","I","N","G","_","P","O","L","I","C","Y","_","O","T","H","E","R">>)>>,
               <<"annotations", PyDict(<< <<"Section", PyStr(<<"A","d","v","a","n","c","e","d">>)>> >>)>> >>),
     \* an optional parameter with a default and integer choices
     PyDict(<< <<"name", PyStr(<<"A","N","Y","C","A","S","T","_","M","T","U">>)>>, <<"optional", PyBool(TRUE)>>,
               <<"parameterType", PyStr(<<"i","n","t","e","g","e","r">>)>>,
               <<"metaProperties", PyDict(<< <<"defaultValue", PyStr(<<"9","2","1","6">>)>> >>)>>,
               <<"annotations", PyDict(<< <<"Enum", PyStr(<<"1","5","0","0",",","9","2","1","6">>)>> >>)>> >>),
     \* a parameter whose Section reads as a number
     PyDict(<< <<"name", PyStr(<<"A","A","A","_","R","E","M","O","T","E","_","I","P","_","E","N","A","B","L","E","D">>)>>,
               <<"parameterType", PyStr(<<"w","e","i","r","d">>)>>,
               <<"annotations", PyDict(<< <<"Section", PyStr(<<"4","2">>)>> >>)>> >>),
     \* a parameter whose IsInternal is neither true nor false
     PyDict(<< <<"name", PyStr(<<"a","b","s","t","r","a","c","t","_","b","g","p">>)>>, <<"parameterType", PyStr(<<"w","e","i","r","d">>)>>,
               <<"annotations", PyDict(<< <<"IsInternal", PyStr(<<"m","a","y","b","e">>)>> >>)>> >>)
    }

RECURSIVE ParamLists(_)
ParamLists(n) ==
    IF n = 0 THEN {<<>>}
    ELSE ParamLists(n - 1) \cup {Append(l, p) : l \in ParamLists(n - 1), p \in BuilderParams}
Templates ==
    {PyDict(<< <<"name", PyStr(<<"E","a","s","y","_","F","a","b","r","i","c">>)>> >>)}
    \cup {PyDict(<< <<"name", PyStr(<<"E","a","s","y","_","F","a","b","r","i","c">>)>>, <<"parameters", PyList(l)>> >>) :
            l \in ParamLists(MaxParams)}

AllTemplatesIndex ==
    PyDict(<< <<"queuing_policy_default_other",
                PyDict(<< <<"name", PyStr(<<"q","u","e","u","i","n","g","_","p","o","l","i","c","y","_","d","e","f","a","u","l","t","_","o","t","h","e","r">>)>>,
                          <<"tags", PyStr(<<"[","Q","o","S","_","O","t","h","e","r","]">>)>> >>)>>,
              <<"Easy_Fabric",
                PyDict(<< <<"name", PyStr(<<"E","a","s","y","_","F","a","b","r","i","c">>)>>,
                          <<"tags", PyStr(<<"[","D","a","t","a"," ","C","e","n","t","e","r"," ","V","X","L","A","N"," ","E","V","P","N","]">>)>> >>)>>,
              <<"Easy_Fabric_IPFM",
                PyDict(<< <<"name", PyStr(<<"E","a","s","y","_","F","a","b","r","i","c","_","I","P","F","M">>)>> >>)>>,
              <<"queuing_policy_default_8q",
                PyDict(<< <<"name", PyStr(<<"q","u","e","u","i","n","g","_","p","o","l","i","c","y","_","d","e","f","a","u","l","t","_","8","q">>)>>,
                          <<"tags", PyStr(<<"[","Q","o","S","_","C","l","o","u","d",","," ","Q","o","S","_","O","t","h","e","r","]">>)>> >>)>> >>)
TemplateAlls == {NdfcTemplates(None), NdfcTemplates(AllTemplatesIndex)}

ModuleNames == {PyStr(<<"d","c","n","m","_","f","a","b","r","i","c">>)}
ModuleAuthors == {PyStr(<<"A","l","l","e","n"," ","R","o","b","e","l">>)}
ModuleStateLists ==
    {PyList(<<PyStr(<<"d","e","l","e","t","e","d">>), PyStr(<<"m","e","r","g","e","d">>)>>), PyList(<<PyStr(<<"q","u","e","r","y">>)>>)}
ModuleDefaultStates == {PyStr(<<"m","e","r","g","e","d">>)}

(***************************************************************************)
(* The builder's operations                                                *)
(***************************************************************************)
\* sys.exit() ended the process: nothing runs after it
Alive == ret.t # "exit"

Returned(name, value) ==
    /\ op' = name
    /\ ret' = value
    /\ UNCHANGED normVars
    /\ UNCHANGED ndfcVars
    /\ UNCHANGED ioVars
    /\ UNCHANGED fileVars

\* module_name setter
SetModuleName ==
    \E value \in ModuleNames :
        /\ Alive
        /\ module_name' = value
        /\ Returned("module_name", None)
        /\ UNCHANGED <<module_author, module_states, module_default_state, template_all,
                       template_dict, template, translation, documentation>>

\* module_author setter
SetModuleAuthor ==
    \E value \in ModuleAuthors :
        /\ Alive
        /\ module_author' = value
        /\ Returned("module_author", None)
        /\ UNCHANGED <<module_name, module_states, module_default_state, template_all,
                       template_dict, template, translation, documentation>>

\* the values handed to the module_default_state setter
DefaultStateInputs ==
    ModuleDefaultStates \cup {PyStr(<<"q","u","e","r","y">>), PyStr(<<"b","o","g","u","s">>), PyStr(<<"M","e","r","g","e","d">>), None}

\* module_default_state setter, called with value
SetModuleDefaultStateTo(value) ==
    /\ Alive
    /\ IF IsValidState(value)
       THEN module_default_state' = value /\ Returned("module_default_state", None)
       ELSE UNCHANGED module_default_state
            /\ Returned("module_default_state", Raised("ValueError"))
    /\ UNCHANGED <<module_name, module_author, module_states, template_all,
                   template_dict, template, translation, documentation>>

\* module_default_state setter
SetModuleDefaultState == \E value \in DefaultStateInputs : SetModuleDefaultStateTo(value)

\* module_states setter
SetModuleStates ==
    \E value \in ModuleStateLists
                 \cup {PyStr(<<"m","e","r","g","e","d">>), PyList(<<PyStr(<<"m","e","r","g","e","d">>), PyStr(<<"b","o","g","u","s">>)>>)} :
        /\ Alive
        /\ IF value.t = "list" /\ \A i \in 1..Len(value.l) : IsValidState(value.l[i])
           THEN module_states' = value /\ Returned("module_states", None)
           ELSE UNCHANGED module_states /\ Returned("module_states", Raised("ValueError"))
        /\ UNCHANGED <<module_name, module_author, module_default_state, template_all,
                       template_dict, template, translation, documentation>>

\* template_all setter
SetTemplateAll ==
    \E value \in TemplateAlls :
        /\ Alive
        /\ template_all' = value
        /\ Returned("template_all", None)
        /\ UNCHANGED <<module_name, module_author, module_states, module_default_state,
                       template_dict, template, translation, documentation>>

\* NdfcDocBuilder.commit
Commit ==
    \E out \in {commit} :
        /\ Alive
        /\ documentation' = out.documentation
        /\ template' = out.template
        /\ translation' = out.translation
        /\ Returned("commit", out.ret)
        /\ UNCHANGED <<module_name, module_author, module_states, module_default_state,
                       template_all, template_dict>>

\* a builder with its mandatory properties set, about to commit a template
InitCommit ==
    /\ item = Unset /\ arg = Unset /\ op = "init" /\ ret = None
    /\ module_name \in ModuleNames
    /\ module_author \in ModuleAuthors
    /\ module_states \in ModuleStateLists
    /\ module_default_state \in ModuleDefaultStates
    /\ template_all \in TemplateAlls
    /\ template_dict \in Templates
    /\ template = None
    /\ translation = Unset
    /\ documentation = PyDict(<< <<"options", PyDict(<<>>)>> >>)
    /\ NdfcInit
    /\ printed = None
    /\ FileInit

NextCommit ==
    \/ Commit
    \/ SetTemplateAll

SpecCommit == InitCommit /\ [][NextCommit]_vars

(***************************************************************************)
(* The builder from its construction: the setters in any order, and commit *)
(***************************************************************************)
\* the templates handed to the template_dict setter: None, a template without
\* parameters, and the templates of one parameter, for the parameters that
\* carry an optional flag and the one whose Section reads as a number
LifecycleTemplates ==
    {None, PyDict(<< <<"name", PyStr(<<"E","a","s","y","_","F","a","b","r","i","c">>)>> >>)}
    \cup {PyDict(<< <<"name", PyStr(<<"E","a","s","y","_","F","a","b","r","i","c">>)>>, <<"parameters", PyList(<<p>>)>> >>) :
            p \in {q \in BuilderParams : HasKey(q.d, "optional") \/ get_section(q).t = "int"}}

\* template_dict setter
SetTemplateDict ==
    \E value \in LifecycleTemplates :
        /\ Alive
        /\ template_dict' = value
        /\ Returned("template_dict", None)
        /\ UNCHANGED <<module_name, module_author, module_states, module_default_state,
                       template_all, template, translation, documentation>>

\* lines 362-365 and 371-374: the dump of self.documentation in the format, or
\* the ValueError raised when self.documentation is None
documentation_dump(format) ==
    IF documentation = None THEN Raised("ValueError")
    ELSE [t |-> "dump", format |-> format, documentation |-> documentation]

\* documentation_yaml() and documentation_json(): print the dump, or raise
DocumentationIn(format) ==
    /\ Alive
    /\ op' = format
    /\ IF IsExc(documentation_dump(format))
       THEN ret' = documentation_dump(format) /\ UNCHANGED printed
       ELSE ret' = None /\ printed' = documentation_dump(format)
    /\ UNCHANGED normVars
    /\ UNCHANGED builderVars
    /\ UNCHANGED ndfcVars
    /\ UNCHANGED fileVars

\* NdfcDocBuilder.documentation_yaml
DocumentationYaml == DocumentationIn("documentation_yaml")

\* NdfcDocBuilder.documentation_json
DocumentationJson == DocumentationIn("documentation_json")

\* NdfcDocBuilder.__init__
Init ==
    /\ item = Unset /\ arg = Unset /\ op = "init" /\ ret = None
    /\ BuilderInit
    /\ NdfcInit
    /\ printed = None
    /\ FileInit

Next ==
    \/ SetModuleName
    \/ SetModuleAuthor
    \/ SetModuleStates
    \/ SetModuleDefaultState
    \/ SetTemplateAll
    \/ SetTemplateDict
    \/ Commit

Spec == Init /\ [][Next]_vars

(***************************************************************************)
(* The dumps: a builder just constructed, or one with its properties set,  *)
(* then commit(), documentation_yaml() and documentation_json() in any     *)
(* order                                                                   *)
(***************************************************************************)
InitPrint == Init \/ InitCommit

NextPrint ==
    \/ Commit
    \/ DocumentationYaml
    \/ DocumentationJson

SpecPrint == InitPrint /\ [][NextPrint]_vars

(***************************************************************************)
(* The HTTP client (util/ndfc.py, class NDFC)                              *)
(*                                                                         *)
(* json.loads / Response.json() on the JSON texts of the model: null,      *)
(* true, false, integers, strings without escapes, arrays and objects.     *)
(* A parse gives [ok, v, rest]: the value read and the text left after it. *)
(***************************************************************************)
JsonSpace == {" ", "\t", "\n", "\r"}
RECURSIVE SkipSpace(_)
SkipSpace(s) == IF s # <<>> /\ Head(s) \in JsonSpace THEN SkipSpace(Tail(s)) ELSE s

Parsed(v, rest) == [ok |-> TRUE, v |-> v, rest |-> rest]
NotJson == [ok |-> FALSE, v |-> None, rest |-> <<>>]

\* a string, s being the text after its opening quote
JsonString(s) ==
    IF Has(s, "\"") THEN Parsed(PyStr(Before(s, "\"")), After(s, "\"")) ELSE NotJson

\* an integer -?(0|[1-9][0-9]*), s being the text after the sign of signed
JsonInt(s, signed) ==
    IF s = <<>> \/ ~IsDigit(Head(s)) THEN NotJson
    ELSE IF Head(s) = "0" THEN Parsed(PyInt(0), Tail(s))
    ELSE Parsed(PyInt(Signed(signed, DigitsValue(SubSeq(s, 1, DigitRun(s)), 0))),
                Drop(s, DigitRun(s)))

RECURSIVE json_value(_)
RECURSIVE json_elements(_, _)
RECURSIVE json_after_element(_, _)
RECURSIVE json_member(_, _)
RECURSIVE json_colon(_, _)
RECURSIVE json_member_value(_, _, _)
RECURSIVE json_members(_, _, _)
RECURSIVE json_after_member(_, _)

\* "[" was read: "]" or the first element
json_array(s) ==
    IF s # <<>> /\ Head(s) = "]" THEN Parsed(PyList(<<>>), Tail(s))
    ELSE json_elements(json_value(s), <<>>)

\* "{" was read: "}" or the first member
json_object(s) ==
    IF s # <<>> /\ Head(s) = "}" THEN Parsed(PyDict(<<>>), Tail(s))
    ELSE json_member(s, <<>>)

\* one JSON value at the start of s (s without leading whitespace)
json_value(s) ==
    IF s = <<>> THEN NotJson
    ELSE IF StartsWith(s, <<"n","u","l","l">>) THEN Parsed(None, Drop(s, 4))
    ELSE IF StartsWith(s, <<"t","r","u","e">>) THEN Parsed(PyBool(TRUE), Drop(s, 4))
    ELSE IF StartsWith(s, <<"f","a","l","s","e">>) THEN Parsed(PyBool(FALSE), Drop(s, 5))
    ELSE IF Head(s) = "\"" THEN JsonString(Tail(s))
    ELSE IF Head(s) = "-" THEN JsonInt(Tail(s), s)
    ELSE IF IsDigit(Head(s)) THEN JsonInt(s, s)
    ELSE IF Head(s) = "[" THEN json_array(SkipSpace(Tail(s)))
    ELSE IF Head(s) = "{" THEN json_object(SkipSpace(Tail(s)))
    ELSE NotJson

\* the element e was read: it joins the elements acc
json_elements(e, acc) ==
    IF e.ok THEN json_after_element(SkipSpace(e.rest), Append(acc, e.v)) ELSE NotJson

\* after an element: "," and one more element, or "]"
json_after_element(s, acc) ==
    IF s = <<>> THEN NotJson
    ELSE IF Head(s) = "]" THEN Parsed(PyList(acc), Tail(s))
    ELSE IF Head(s) = "," THEN json_elements(json_value(SkipSpace(Tail(s))), acc)
    ELSE NotJson

\* a member "key": value at the start of s
json_member(s, acc) ==
    IF s = <<>> \/ Head(s) # "\"" THEN NotJson ELSE json_colon(JsonString(Tail(s)), acc)

\* the key k was read
json_colon(k, acc) ==
    IF k.ok THEN json_member_value(k.v.s, SkipSpace(k.rest), acc) ELSE NotJson

\* ":" and the value of key
json_member_value(key, s, acc) ==
    IF s = <<>> \/ Head(s) # ":" THEN NotJson
    ELSE json_members(key, json_value(SkipSpace(Tail(s))), acc)

\* the value e of key was read: a repeated key keeps its last value
json_members(key, e, acc) ==
    IF e.ok THEN json_after_member(SkipSpace(e.rest), SetKey(acc, key, e.v)) ELSE NotJson

\* after a member: "," and one more member, or "}"
json_after_member(s, acc) ==
    IF s = <<>> THEN NotJson
    ELSE IF Head(s) = "}" THEN Parsed(PyDict(acc), Tail(s))
    ELSE IF Head(s) = "," THEN json_member(SkipSpace(Tail(s)), acc)
    ELSE NotJson

\* the text is one JSON value and whitespace, or the decoder raises
WholeDocument(e) ==
    IF e.ok /\ SkipSpace(e.rest) = <<>> THEN e.v ELSE Raised("JSONDecodeError")
\* json.loads(text)
json_loads(text) == WholeDocument(json_value(SkipSpace(text)))

\* a requests.Response: its status code and its body
Response(status_code, text) == [t |-> "response", status_code |-> status_code, text |-> text]

\* self._valid_request_types
valid_request_types == {PyStr(<<"D","E","L","E","T","E">>), PyStr(<<"G","E","T">>), PyStr(<<"P","O","S","T">>), PyStr(<<"P","U","T">>)}

\* NDFC.make_headers: the headers stored in self.headers
make_headers ==
    PyDict(<< <<"Authorization", bearer_token>>,
              <<"Content-Type", PyStr(<<"a","p","p","l","i","c","a","t","i","o","n","/","j","s","o","n">>)>> >>)

\* self.headers after _make_headers(params): make_headers runs when params
\* carries no headers
HeadersAfter(params) == IF HasKey(params.d, "headers") THEN headers ELSE make_headers

\* what ndfc_action leaves: its outcome, self.response and self.headers
NdfcOut(r, resp, hdrs) == [ret |-> r, response |-> resp, headers |-> hdrs]

\* lines 308-312: the parsed body, or the response itself when the body is
\* not JSON
json_or_response(resp, parsed) == IF parsed = Raised("JSONDecodeError") THEN resp ELSE parsed

\* lines 302-312 with every status of the 2xx class taken as success
ndfc_result_any2xx(resp) ==
    IF resp.status_code \notin 200..299 THEN Raised("NdfcRequestError")
    ELSE json_or_response(resp, json_loads(resp.text))

\* lines 302-312: the outcome of ndfc_action once a response arrived
ndfc_result(resp) ==
    IF resp.status_code # 200 THEN Raised("NdfcRequestError")
    ELSE json_or_response(resp, json_loads(resp.text))

\* the exceptions of requests that ndfc_action turns into sys.exit(1)
ExitingErrors == {"InvalidSchema", "ConnectTimeout", "ConnectionError"}

\* lines 254-312: reply is what the requests call gave, a response or an
\* exception; an exception that no except clause names leaves ndfc_action
ndfc_request(reply, hdrs) ==
    IF reply.t = "response" THEN NdfcOut(ndfc_result(reply), reply, hdrs)
    ELSE IF reply.e \in ExitingErrors THEN NdfcOut(SysExit(1), response, hdrs)
    ELSE NdfcOut(reply, response, hdrs)

\* lines 232-241: both mandatory keys and a valid request type
ValidRequest(params) ==
    /\ HasKey(params.d, "url")
    /\ HasKey(params.d, "request_type")
    /\ GetKey(params.d, "request_type") \in valid_request_types

\* NDFC.ndfc_action(params), reply being what the requests call gives
ndfc_action(params, reply) ==
    IF ValidRequest(params) THEN ndfc_request(reply, HeadersAfter(params))
    ELSE NdfcOut(SysExit(1), response, headers)

\* the request descriptions handed to ndfc_action
Url == PyStr(<<"h","t","t","p","s",":","/","/","1","0",".","1",".","1",".","1","/","l","o","g","i","n">>)
RequestParams ==
    {PyDict(Opt("url", u) \o Opt("request_type", r) \o Opt("headers", h)) :
        u \in {Unset, Url},
        r \in {Unset, PyStr(<<"P","A","T","C","H">>), PyStr(<<"g","e","t">>)} \cup valid_request_types,
        h \in {Unset, None, PyDict(<< <<"Accept", PyStr(<<"*","/","*">>)>> >>)}}

\* the status codes and the bodies of the responses
StatusCodes == {200, 201, 204, 302, 401, 404, 500}
Bodies ==
    {<<>>, <<"O","K">>, <<"n","u","l","l">>, <<"[","]">>, <<" ","[","1",","," ","\"","x","\"","]"," ">>, <<"{","\"","j","w","t","t","o","k","e","n","\"",":"," ","\"","t","\"","}">>,
     <<"{","\"","a","\"",":"," ","-","1","2",","," ","\"","a","\"",":"," ","t","r","u","e","}">>, <<"{","\"","a","\"",":"," ">>, <<"{","}"," ","{","}">>}
Responses == {Response(c, b) : c \in StatusCodes, b \in Bodies}
\* what a requests call gives: a response, or one of its exceptions
Replies ==
    Responses \cup {Raised(e) : e \in ExitingErrors} \cup {Raised("ReadTimeout")}

\* ndfc_action(params) answered by reply
NdfcActionWith(params, reply) ==
    /\ Alive
    /\ op' = "ndfc_action"
    /\ \E out \in {ndfc_action(params, reply)} :
        /\ ret' = out.ret
        /\ response' = out.response
        /\ headers' = out.headers
    /\ UNCHANGED <<bearer_token, environ, ip4, password, username, properties, auth_token,
                   login_request>>
    /\ UNCHANGED normVars
    /\ UNCHANGED builderVars
    /\ UNCHANGED ioVars
    /\ UNCHANGED fileVars

\* NDFC.ndfc_action
NdfcAction == \E params \in RequestParams, reply \in Replies : NdfcActionWith(params, reply)

\* NDFC.__init__ with the login properties present in the environment
InitNdfc ==
    /\ item = Unset /\ arg = Unset /\ op = "init" /\ ret = None
    /\ BuilderInit
    /\ NdfcInit
    /\ printed = None
    /\ FileInit

NextNdfc == NdfcAction

SpecNdfc == InitNdfc /\ [][NextNdfc]_vars

(***************************************************************************)
(* The HTTP client from its construction: NDFC(), the verb setter, login() *)
(***************************************************************************)
\* the environments the client is constructed in: each variable exported or not
Environs ==
    {PyDict(Opt("NDFC_IP4", i) \o Opt("NDFC_PASSWORD", p) \o Opt("NDFC_USERNAME", u)
            \o Opt("NDFC_DOMAIN", d)) :
        i \in {Unset, PyStr(<<"1","0",".","1",".","1",".","1">>)},
        p \in {Unset, PyStr(<<"p","w">>)},
        u \in {Unset, PyStr(<<"o","p","e","r","a","t","o","r">>)},
        d \in {Unset, PyStr(<<"r","a","d","i","u","s">>)}}

\* environ.get(key, None)
environ_get(key) == item_get(environ, key)

\* NDFC._init_login_properties, lines 90-107: sys.exit(1) when one of the
\* three variables is not in the environment
init_login_properties ==
    IF environ_get("NDFC_IP4") = None THEN SysExit(1)
    ELSE IF environ_get("NDFC_PASSWORD") = None THEN SysExit(1)
    ELSE IF environ_get("NDFC_USERNAME") = None THEN SysExit(1)
    ELSE None

\* NDFC(): __init__ reads the environment, and assigns the other attributes
\* only when _init_login_properties did not end the process
New ==
    /\ op = "start"
    /\ op' = "__init__"
    /\ ip4' = environ_get("NDFC_IP4")
    /\ password' = environ_get("NDFC_PASSWORD")
    /\ username' = environ_get("NDFC_USERNAME")
    /\ ret' = init_login_properties
    /\ IF init_login_properties = None
       THEN /\ response' = None
            /\ headers' = PyDict(<<>>)
            /\ bearer_token' = None
            /\ auth_token' = None
            /\ properties' = init_properties
       ELSE UNCHANGED <<response, headers, bearer_token, auth_token, properties>>
    /\ UNCHANGED <<environ, login_request>>
    /\ UNCHANGED normVars
    /\ UNCHANGED builderVars
    /\ UNCHANGED ioVars
    /\ UNCHANGED fileVars

\* the client was constructed and the process is running
Constructed == op # "start" /\ Alive

\* verb setter
SetVerb ==
    \E value \in {PyStr(<<"G","E","T">>), PyStr(<<"P","O","S","T">>), PyStr(<<"g","e","t">>), None} :
        /\ Constructed
        /\ op' = "verb"
        /\ IF value \in valid_request_types
           THEN properties' = PyDict(SetKey(properties.d, "verb", value)) /\ ret' = None
           ELSE UNCHANGED properties /\ ret' = Raised("ValueError")
        /\ UNCHANGED <<response, headers, bearer_token, environ, ip4, password, username,
                       auth_token, login_request>>
        /\ UNCHANGED normVars
        /\ UNCHANGED builderVars
        /\ UNCHANGED ioVars
        /\ UNCHANGED fileVars

\* url_login and the payload of login(), lines 127-140
LoginRequest ==
    [url |-> PyStr(<<"h","t","t","p","s",":","/","/">> \o py_str(ip4) \o <<"/","l","o","g","i","n">>),
     payload |-> PyDict(<< <<"userName", username>>, <<"userPasswd", password>>,
                           <<"domain", PyStr(<<"D","e","f","a","u","l","t","A","u","t","h">>)>> >>)]

\* what login() leaves: its outcome, self.response, self.auth_token,
\* self.bearer_token and the request it sent
LoginOut(r, resp, auth, bearer, req) ==
    [ret |-> r, response |-> resp, auth_token |-> auth, bearer_token |-> bearer,
     login_request |-> req]

\* "jwttoken" in response, for the values json.loads gives: a key of a dict,
\* an element of a list, a part of a string; any other value raises TypeError
HasToken(parsed) ==
    CASE parsed.t = "dict" -> HasKey(parsed.d, <<"j","w","t","t","o","k","e","n">>)
      [] parsed.t = "list" -> \E i \in 1..Len(parsed.l) : parsed.l[i] = PyStr(<<"j","w","t","t","o","k","e","n">>)
      [] parsed.t = "str" -> Contains(parsed.s, <<"j","w","t","t","o","k","e","n">>)
      [] OTHER -> FALSE

\* lines 153-154: response["jwttoken"] of a list or a string raises TypeError
login_token(parsed, resp, req) ==
    IF parsed.t # "dict" THEN LoginOut(Raised("TypeError"), resp, auth_token, bearer_token, req)
    ELSE LoginOut(None, resp, GetKey(parsed.d, <<"j","w","t","t","o","k","e","n">>),
                  PyStr(<<"B","e","a","r","e","r"," ">> \o py_str(GetKey(parsed.d, <<"j","w","t","t","o","k","e","n">>))), req)

\* lines 146-154: parsed is json.loads(self.response.text)
login_parsed(parsed, resp, req) ==
    IF parsed = Raised("JSONDecodeError")
    THEN LoginOut(parsed, resp, auth_token, bearer_token, req)
    ELSE IF parsed.t \in {"none", "bool", "int"}
    THEN LoginOut(Raised("TypeError"), resp, auth_token, bearer_token, req)
    ELSE IF ~HasToken(parsed) THEN LoginOut(SysExit(1), resp, auth_token, bearer_token, req)
    ELSE login_token(parsed, resp, req)

\* lines 139-154: reply is what requests.post gave; its exceptions leave login
login_reply(reply, req) ==
    IF reply.t = "response" THEN login_parsed(json_loads(reply.text), reply, req)
    ELSE LoginOut(reply, response, auth_token, bearer_token, req)

\* NDFC.login(), reply being what requests.post gives: lines 125-129 end the
\* process when a property is None
login(reply) ==
    IF \E i \in 1..Len(properties.d) : properties.d[i][2] = None
    THEN LoginOut(SysExit(1), response, auth_token, bearer_token, login_request)
    ELSE login_reply(reply, LoginRequest)

\* the replies to the login request
LoginBodies ==
    {<<>>, <<"n","u","l","l">>, <<"[","\"","j","w","t","t","o","k","e","n","\"","]">>, <<"\"","j","w","t","t","o","k","e","n","\"">>, <<"{","\"","j","w","t","t","o","k","e","n","\"",":"," ","\"","t","\"","}">>,
     <<"{","\"","j","w","t","t","o","k","e","n","\"",":"," ","5",","," ","\"","a","\"",":"," ","1","}">>, <<"{","\"","j","w","t","t","o","k","e","n","\"",":"," ","n","u","l","l","}">>, <<"{","}">>,
     <<"{","\"","e","r","r","o","r","\"",":"," ","\"","j","w","t","t","o","k","e","n","\"","}">>}
LoginResponses == {Response(c, b) : c \in {200, 401, 500}, b \in LoginBodies}
LoginReplies == LoginResponses \cup {Raised("ConnectionError")}

\* login() answered by reply
LoginWith(reply) ==
    /\ Constructed
    /\ op' = "login"
    /\ \E out \in {login(reply)} :
        /\ ret' = out.ret
        /\ response' = out.response
        /\ auth_token' = out.auth_token
        /\ bearer_token' = out.bearer_token
        /\ login_request' = out.login_request
    /\ UNCHANGED <<headers, environ, ip4, password, username, properties>>
    /\ UNCHANGED normVars
    /\ UNCHANGED builderVars
    /\ UNCHANGED ioVars
    /\ UNCHANGED fileVars

\* NDFC.login
Login == \E reply \in LoginReplies : LoginWith(reply)

\* before NDFC(): an environment, and no attribute assigned
InitLogin ==
    /\ item = Unset /\ arg = Unset /\ op = "start" /\ ret = None
    /\ BuilderInit
    /\ environ \in Environs
    /\ ip4 = Unset /\ password = Unset /\ username = Unset
    /\ response = Unset /\ headers = Unset /\ bearer_token = Unset
    /\ auth_token = Unset /\ properties = Unset /\ login_request = None
    /\ printed = None
    /\ FileInit

NextLogin ==
    \/ New
    \/ SetVerb
    \/ Login

SpecLogin == InitLogin /\ [][NextLogin]_vars

(***************************************************************************)
(* NdfcTemplate.load: the template from template_dict, else from the file  *)
(* template_json_file                                                      *)
(***************************************************************************)
\* the paths of the model
GoodPath == PyStr(<<"E","a","s","y","_","F","a","b","r","i","c",".","j","s","o","n">>)
BadPath == PyStr(<<"b","r","o","k","e","n",".","j","s","o","n">>)
NoPath == PyStr(<<"m","i","s","s","i","n","g",".","j","s","o","n">>)
Paths == {GoodPath, BadPath, NoPath}

\* json.load(open(path)): the file is missing, or its text is parsed
json_load(path) ==
    CASE path = GoodPath -> json_loads(<<"{","\"","n","a","m","e","\"",":"," ","\"","E","a","s","y","_","F","a","b","r","i","c","\"",","," ","\"","p","a","r","a","m","e","t","e","r","s","\"",":"," ","[","]","}">>)
      [] path = BadPath -> json_loads(<<"{","\"","n","a","m","e","\"",":"," ">>)
      [] OTHER -> Raised("FileNotFoundError")

\* what load() leaves: its outcome, self.template and the paths opened
LoadOut(r, tmpl, paths) == [ret |-> r, template |-> tmpl, opened |-> paths]

\* lines 526-531: the file is opened, and the template assigned when its text
\* was parsed
load_file(parsed, paths) ==
    IF IsExc(parsed) THEN LoadOut(parsed, template, paths) ELSE LoadOut(None, parsed, paths)

\* load() reading the file whenever one is named
load_fileFirst ==
    IF template_dict = None /\ template_json_file = None
    THEN LoadOut(Raised("ValueError"), template, opened)
    ELSE IF template_json_file # None
    THEN load_file(json_load(template_json_file), Append(opened, template_json_file))
    ELSE LoadOut(None, template_dict, opened)

\* NdfcTemplate.load, lines 508-531
load ==
    IF template_dict = None /\ template_json_file = None
    THEN LoadOut(Raised("ValueError"), template, opened)
    ELSE IF template_dict # None
    THEN LoadOut(None, template_dict, opened)
    ELSE load_file(json_load(template_json_file), Append(opened, template_json_file))

\* the files one run opens
MaxOpened == 2

\* the values handed to the two setters, the keys of a dictionary being text
\* as json.load gives them
LoadDicts ==
    {None, PyDict(<<>>), PyDict(<< <<<<"n","a","m","e">>, PyStr(<<"L","A","N","_","C","l","a","s","s","i","c">>)>> >>),
     PyDict(<< <<<<"n","a","m","e">>, PyStr(<<"E","a","s","y","_","F","a","b","r","i","c">>)>>, <<<<"p","a","r","a","m","e","t","e","r","s">>, PyList(<<>>)>> >>)}
LoadFiles == {None} \cup Paths

\* the frame of the three operations of the template object
TemplateReturned(name, value) ==
    /\ op' = name
    /\ ret' = value
    /\ UNCHANGED normVars
    /\ UNCHANGED <<module_name, module_author, module_states, module_default_state,
                   template_all, translation, documentation>>
    /\ UNCHANGED ndfcVars
    /\ UNCHANGED ioVars

\* NdfcTemplate.template_dict setter
TemplateSetDict ==
    \E value \in LoadDicts :
        /\ template_dict' = value
        /\ TemplateReturned("template_dict", None)
        /\ UNCHANGED <<template, template_json_file, opened>>

\* NdfcTemplate.template_json_file setter
TemplateSetJsonFile ==
    \E value \in LoadFiles :
        /\ template_json_file' = value
        /\ TemplateReturned("template_json_file", None)
        /\ UNCHANGED <<template, template_dict, opened>>

\* NdfcTemplate.load
Load ==
    /\ Len(opened) < MaxOpened
    /\ \E out \in {load} :
        /\ template' = out.template
        /\ opened' = out.opened
        /\ TemplateReturned("load", out.ret)
    /\ UNCHANGED <<template_dict, template_json_file>>

\* NdfcTemplate.__init__: _init_properties sets the three attributes to None
InitLoad ==
    /\ item = Unset /\ arg = Unset /\ op = "init" /\ ret = None
    /\ module_name = None /\ module_author = None
    /\ module_states = None /\ module_default_state = None
    /\ template_all = None /\ translation = Unset
    /\ documentation = PyDict(<< <<"options", PyDict(<<>>)>> >>)
    /\ template_dict = None /\ template = None
    /\ NdfcInit
    /\ printed = None
    /\ FileInit

NextLoad ==
    \/ TemplateSetDict
    \/ TemplateSetJsonFile
    \/ Load

SpecLoad == InitLoad /\ [][NextLoad]_vars

(***************************************************************************)
(* The ruleset of the custom_swift_issu template                           *)
(* (util/ndfc_template_custom_swift_issu.py, pythonize_ruleset)            *)
(***************************************************************************)
\* the index of the first occurrence of sep in s (sep occurs in s)
FirstAt(s, sep) ==
    CHOOSE i \in 1..(Len(s) - Len(sep) + 1) :
        /\ SubSeq(s, i, i + Len(sep) - 1) = sep
        /\ \A k \in 1..(i - 1) : SubSeq(s, k, k + Len(sep) - 1) # sep

\* str.split(sep) for a separator of any length
RECURSIVE split_text(_, _)
split_text(s, sep) ==
    IF Contains(s, sep)
    THEN <<SubSeq(s, 1, FirstAt(s, sep) - 1)>>
         \o split_text(Drop(s, FirstAt(s, sep) + Len(sep) - 1), sep)
    ELSE <<s>>

\* sep.join(parts)
RECURSIVE join(_, _)
join(sep, parts) ==
    IF parts = <<>> THEN <<>>
    ELSE IF Len(parts) = 1 THEN parts[1]
    ELSE parts[1] \o sep \o join(sep, Tail(parts))

\* lines 273-284: the replacements made in the text of a rule
rule_text(rule) ==
    re_sub_spaces(
    re_sub(<<"f","a","l","s","e">>, <<" ","F","a","l","s","e">>,
    re_sub(<<"t","r","u","e">>, <<" ","T","r","u","e">>,
    re_sub(<<")">>, <<" ",")"," ">>,
    re_sub(<<"(">>, <<" ","("," ">>,
    re_sub(<<"!","=">>, <<" ","!","="," ">>,
    re_sub(<<"=","=">>, <<" ","=","="," ">>,
    re_sub(<<"|","|">>, <<" ","o","r"," ">>,
    re_sub(<<"\\","'">>, <<>>,
    re_sub(<<"\\","\"">>, <<>>,
    re_sub(<<"&","&">>, <<" ","a","n","d"," ">>,
    re_sub(<<"$","$">>, <<>>, rule))))))))))))

\* lines 290-294: one part of a conjunction, stripped and without quotes
rule_part(x) == re_sub(<<"'">>, <<>>, re_sub(<<"\"">>, <<>>, re_sub(<<" "," ">>, <<" ">>, strip(x))))

\* lines 302-303: the right-hand side, quoted unless it is True or False
quoted_rhs(rhs) ==
    IF rhs \in {<<"T","r","u","e">>, <<"F","a","l","s","e">>} THEN rhs ELSE <<"\"">> \o rhs \o <<"\"">>

\* lines 299-306: lhs, op, rhs = item.split(" ") raises ValueError unless the
\* part has three fields; the left-hand side is looked up in the translation
comparison(trans, fields) ==
    IF Len(fields) # 3 THEN Raised("ValueError")
    ELSE PyStr((IF HasKey(trans, fields[1]) THEN GetKey(trans, fields[1]) ELSE fields[1])
               \o <<" ">> \o fields[2] \o <<" ">>
               \o quoted_rhs(re_sub(<<"'">>, <<>>, re_sub(<<"\"">>, <<>>, fields[3]))))

\* lines 289-307: the comparisons of the parts, joined by " and "
RECURSIVE comparisons(_, _)
comparisons(trans, parts) ==
    IF parts = <<>> THEN <<>>
    ELSE <<comparison(trans, split(rule_part(parts[1]), " "))>> \o comparisons(trans, Tail(parts))
new_rule_of(trans, rule) ==
    IF \E i \in 1..Len(comparisons(trans, split_text(rule, <<"a","n","d">>))) :
            IsExc(comparisons(trans, split_text(rule, <<"a","n","d">>))[i])
    THEN Raised("ValueError")
    ELSE PyStr(join(<<" ","a","n","d"," ">>, [i \in 1..Len(comparisons(trans, split_text(rule, <<"a","n","d">>))) |->
                                    comparisons(trans, split_text(rule, <<"a","n","d">>))[i].s]))

\* what pythonize_ruleset leaves: the ruleset, which it changes in place, and
\* its outcome, the ruleset or the exception raised
RulesOut(d, r) == [ruleset |-> d, ret |-> r]

RECURSIVE pythonize_loop(_, _, _, _)
\* line 309: ruleset[key] = new_rule, new_rule being Unset while no rule has
\* assigned it
pythonize_store(trans, d, i, new_rule) ==
    IF new_rule = Unset THEN RulesOut(d, Raised("UnboundLocalError"))
    ELSE IF IsExc(new_rule) THEN RulesOut(d, new_rule)
    ELSE pythonize_loop(trans, [d EXCEPT ![i] = <<d[i][1], new_rule>>], i + 1, new_rule)

\* lines 285-309: rule is the text after the replacements
pythonize_rule(trans, d, i, new_rule, rule) ==
    IF Contains(rule, <<"a","n","d">>) /\ Contains(rule, <<"o","r">>)
    THEN pythonize_loop(trans, d, i + 1, new_rule)
    ELSE IF Contains(rule, <<"a","n","d">>)
    THEN pythonize_store(trans, d, i, new_rule_of(trans, rule))
    ELSE pythonize_store(trans, d, i, new_rule)

\* the loop of pythonize_ruleset over the keys, from the i-th
pythonize_loop(trans, d, i, new_rule) ==
    IF i > Len(d) THEN RulesOut(d, PyDict(d))
    ELSE IF d[i][2] = None THEN pythonize_loop(trans, d, i + 1, new_rule)
    ELSE pythonize_rule(trans, d, i, new_rule, rule_text(d[i][2].s))

\* NdfcTemplateCustomSwiftIssu.pythonize_ruleset(ruleset)
pythonize_ruleset(trans, ruleset) == pythonize_loop(trans, ruleset.d, 1, Unset)

\* the keys of one ruleset
MaxRules == 3
RuleKeys == <<"fabric_mtu", "link_state_routing", "ospf_area_id", "ospf_auth_key", "vrf_lite">>

\* the IsShow rules of the model: none, a single comparison, two conjunctions,
\* a disjunction, a rule with both, a conjunction with parentheses
SingleRule == PyStr(<<"\"","U","N","D","E","R","L","A","Y","_","I","S","_","V","6","=","=","f","a","l","s","e","\"">>)
AndRule == PyStr(<<"\"","L","I","N","K","_","S","T","A","T","E","_","R","O","U","T","I","N","G","=","=","o","s","p","f"," ","&","&"," ","U","N","D","E","R","L","A","Y","_","I","S","_","V","6","!","=","t","r","u","e","\"">>)
AndRuleToo == PyStr(<<"$","$","A","$","$","=","=","'","x","'","&","&","$","$","B","$","$","=","=","2">>)
OrRule == PyStr(<<"\"","A","=","=","1"," ","|","|"," ","B","=","=","2","\"">>)
MixedRule == PyStr(<<"\"","A","=","=","1"," ","&","&"," ","B","=","=","2"," ","|","|"," ","C","=","=","3","\"">>)
ParenRule == PyStr(<<"\"","(","A","=","=","1",")"," ","&","&"," ","B","=","=","2","\"">>)
Rules == {None, SingleRule, AndRule, AndRuleToo, OrRule, MixedRule, ParenRule}

RECURSIVE RuleLists(_)
RuleLists(n) ==
    IF n = 0 THEN {<<>>}
    ELSE RuleLists(n - 1)
         \cup {Append(l, <<RuleKeys[Len(l) + 1], r>>) : l \in {x \in RuleLists(n - 1) : Len(x) = n - 1},
                                                     r \in Rules}
RuleSets == {PyDict(l) : l \in RuleLists(MaxRules)}

\* self.translation as init_translation builds it
RulesTranslation ==
    << <<<<"L","I","N","K","_","S","T","A","T","E","_","R","O","U","T","I","N","G">>, <<"l","i","n","k","_","s","t","a","t","e","_","r","o","u","t","i","n","g">>>>,
       <<<<"U","N","D","E","R","L","A","Y","_","I","S","_","V","6">>, <<"u","n","d","e","r","l","a","y","_","i","s","_","v","6">>>> >>

\* pythonize_ruleset(item): the ruleset handed in is the one changed
PythonizeRuleset ==
    /\ ~IsExc(ret)
    /\ op' = "pythonize_ruleset"
    /\ \E out \in {pythonize_ruleset(translation, item)} :
        /\ item' = PyDict(out.ruleset)
        /\ ret' = out.ret
    /\ UNCHANGED arg
    /\ UNCHANGED builderVars
    /\ UNCHANGED ndfcVars
    /\ UNCHANGED ioVars
    /\ UNCHANGED fileVars

\* a ruleset as build_ruleset hands it to pythonize_ruleset
InitRules ==
    /\ item \in RuleSets /\ arg = Unset /\ op = "init" /\ ret = None
    /\ module_name = None /\ module_author = None
    /\ module_states = None /\ module_default_state = None
    /\ template_all = None /\ template_dict = None /\ template = None
    /\ translation = RulesTranslation
    /\ documentation = None
    /\ NdfcInit
    /\ printed = None
    /\ FileInit

NextRules == PythonizeRuleset

SpecRules == InitRules /\ [][NextRules]_vars

(***************************************************************************)
(* Properties of the normalizer (checked under SpecNorm)                   *)
(***************************************************************************)
\* what a descriptor carries, read off the raw descriptor
RawAt(it, k1, k2) ==
    IF it # Unset /\ HasKey(it.d, k1) /\ GetKey(it.d, k1).t = "dict"
       /\ HasKey(GetKey(it.d, k1).d, k2)
    THEN GetKey(GetKey(it.d, k1).d, k2) ELSE Unset
RawTop(it, k) == IF it # Unset /\ HasKey(it.d, k) THEN GetKey(it.d, k) ELSE Unset
MetaDefault == RawAt(item, "metaProperties", "defaultValue")
RootDefault == RawTop(item, "defaultValue")
DescriptionOf == RawAt(item, "annotations", "Description")
EnumOf == RawAt(item, "annotations", "Enum")
SectionOf == RawAt(item, "annotations", "Section")

\* C1: is_required is False when the descriptor has a default value; with no
\* default value (neither location present) it is the inverse of `optional`:
\* True when optional is false, False when optional is true.
C1_IsRequiredInverseOfOptional ==
    op = "is_required" =>
        IF MetaDefault # Unset \/ RootDefault # Unset
        THEN ret = PyBool(FALSE)
        ELSE /\ RawTop(item, "optional") = PyBool(FALSE) => ret = PyBool(TRUE)
             /\ RawTop(item, "optional") = PyBool(TRUE) => ret = PyBool(FALSE)

\* C2: clean_string is idempotent: the second application completes and
\* returns what the first returned.
C2_CleanStringIdempotent ==
    op = "clean_string_again" => ret = arg

\* C3: with a non-empty metaProperties.defaultValue, get_default_value returns
\* that value cleaned, whatever top-level defaultValue is also there.
C3_MetaDefaultWins ==
    (op = "get_default_value" /\ MetaDefault # Unset /\ MetaDefault # PyStr(<<>>))
        => ret = clean_string(MetaDefault)
C3_Witness ==
    /\ op = "get_default_value"
    /\ MetaDefault = PyStr(<<"n","o">>)
    /\ RootDefault = PyStr(<<"5">>)
    /\ ret = PyBool(FALSE)

\* C4: get_default_value returns None exactly when the descriptor has neither
\* default location; with only the top-level one it returns that value cleaned.
C4_NoneIffNoDefault ==
    op = "get_default_value" =>
        /\ (ret = None) <=> (MetaDefault = Unset /\ RootDefault = Unset)
        /\ (MetaDefault = Unset /\ RootDefault # Unset) => ret = clean_string(RootDefault)
C4_Witness ==
    /\ op = "get_default_value"
    /\ MetaDefault = Unset
    /\ RootDefault = PyStr(<<>>)
    /\ ret = PyStr(<<>>)

\* C5 as stated: get_description returns "No description available" when
\* annotations.Description is absent and when it is the empty string.
C5_LiteralWhenAbsentOrEmpty ==
    (op = "get_description" /\ DescriptionOf \in {Unset, PyStr(<<>>)})
        => ret = PyStr(NoDescription)
\* C5 amended: get_description returns "No description available" when
\* annotations.Description is absent, and the empty string when it is the
\* empty string.
C5_LiteralWhenAbsent ==
    op = "get_description" =>
        /\ DescriptionOf = Unset => ret = PyStr(NoDescription)
        /\ DescriptionOf = PyStr(<<>>) => ret = PyStr(<<>>)
C5_Witness ==
    /\ op = "get_description"
    /\ DescriptionOf = Unset
    /\ ret = PyStr(NoDescription)

\* C6: get_enum returns the comma-separated elements of the Enum annotation in
\* source order, as integers when every element converts to an integer and as
\* the cleaned strings otherwise; the empty list when there is no Enum.
EnumElements == split(clean_text(EnumOf.s), ",")
C6_EnumElementsInOrder ==
    op = "get_enum" =>
        IF EnumOf = Unset THEN ret = PyList(<<>>)
        ELSE IF \A i \in 1..Len(EnumElements) : IsIntLiteral(EnumElements[i])
        THEN ret = PyList([i \in 1..Len(EnumElements) |-> PyInt(ParseInt(EnumElements[i]))])
        ELSE ret = PyList([i \in 1..Len(EnumElements) |-> PyStr(EnumElements[i])])

\* C7: get_min_max returns the integers (N, M) of the first "(Min: N, Max: M)"
\* in the description, and (None, None) when the description has no such
\* pattern or is absent.
AllIn(s, from, to, S) == \A k \in from..to : s[k] \in S
DigitSet == {Digits[i] : i \in 1..10}
TextAt(d, i, p) == i + Len(p) - 1 <= Len(d) /\ SubSeq(d, i, i + Len(p) - 1) = p
\* the <<N, M>> for which d, from position i, reads
\* "(Min:" spaces N "," spaces "Max:" spaces M ")"
MinMaxPairsAt(d, i) ==
    IF ~TextAt(d, i, <<"(","M","i","n",":">>) THEN {}
    ELSE UNION {UNION {UNION {UNION {
            {<<SubSeq(d, a, b), SubSeq(d, e, j - 1)>> :
                j \in {j \in (e + 1)..Len(d) : AllIn(d, e, j - 1, DigitSet) /\ d[j] = ")"}} :
            e \in {e \in (c + 4)..Len(d) : AllIn(d, c + 4, e - 1, Whitespace) /\ d[e] \in DigitSet}} :
            c \in {c \in (b + 2)..Len(d) : AllIn(d, b + 2, c - 1, Whitespace) /\ TextAt(d, c, <<"M","a","x",":">>)}} :
            b \in {b \in a..(Len(d) - 1) : AllIn(d, a, b, DigitSet) /\ d[b + 1] = ","}} :
            a \in {a \in (i + 5)..Len(d) : AllIn(d, i + 5, a - 1, Whitespace) /\ d[a] \in DigitSet}}
C7_MinMaxFromDescription ==
    op = "get_min_max" =>
        LET d == DescriptionOf.s
        IN IF DescriptionOf = Unset \/ \A i \in 1..Len(d) : MinMaxPairsAt(d, i) = {}
           THEN ret = PyTuple(<<None, None>>)
           ELSE \E i \in 1..Len(d) :
                   /\ \A k \in 1..(i - 1) : MinMaxPairsAt(d, k) = {}
                   /\ \E nm \in MinMaxPairsAt(d, i) :
                        ret = PyTuple(<<PyInt(DigitsValue(nm[1], 0)), PyInt(DigitsValue(nm[2], 0))>>)
C7_Witness ==
    /\ op = "get_min_max"
    /\ DescriptionOf = PyStr(<<"H","o","l","d"," ","t","i","m","e","r"," ","(","M","i","n",":"," ","2",","," ","M","a","x",":"," ","3","6",")">>)
    /\ ret = PyTuple(<<PyInt(2), PyInt(36)>>)

\* C8: is_hidden returns True exactly when the cleaned Section annotation
\* contains "Hidden", and False in every other case (absent, empty, any other
\* text, text that reads as a boolean or a number).
C8_HiddenIffSectionContainsHidden ==
    op = "is_hidden" =>
        ret = PyBool(SectionOf # Unset /\ Contains(clean_text(SectionOf.s), <<"H","i","d","d","e","n">>))

\* C9: malformed descriptor data never makes the normalizer raise:
\* get_description, get_enum, is_hidden and get_default_value return a value.
C9_NormalizerNeverRaises ==
    op \in {"get_description", "get_enum", "is_hidden", "get_default_value"}
        => ~IsExc(ret)

\* C17: get_parameter_type returns the translation table's value when the
\* descriptor's parameterType is a key of the table, the parameterType
\* unchanged when it is not, and None when the descriptor has none.
C17_ParameterTypeTranslated ==
    op = "get_parameter_type" =>
        IF RawTop(item, "parameterType") = Unset THEN ret = None
        ELSE \/ \E k \in 1..Len(parameter_type_translation) :
                  /\ parameter_type_translation[k][1] = RawTop(item, "parameterType").s
                  /\ ret = PyStr(parameter_type_translation[k][2])
             \/ /\ \A k \in 1..Len(parameter_type_translation) :
                      parameter_type_translation[k][1] # RawTop(item, "parameterType").s
                /\ ret = RawTop(item, "parameterType")
\* "string[]" is in the table and gives str
C17_Witness ==
    /\ op = "get_parameter_type"
    /\ RawTop(item, "parameterType") = PyStr(<<"s","t","r","i","n","g","[","]">>)
    /\ ret = PyStr(<<"s","t","r">>)

\* the text of the argument after the trimming and the substring removal
CleanedArg == clean_text(arg.s)
\* C18: clean_string interprets the cleaned text in a fixed order: true or yes
\* (in any case) give True, false or no give False; otherwise text that
\* parses as an integer gives that integer; otherwise, a float aside, the
\* cleaned text itself is returned; None gives the empty string.
C18_InterpretationOrder ==
    (op = "clean_string" /\ arg.t \in {"none", "str"}) =>
        IF arg = None THEN ret = PyStr(<<>>)
        ELSE IF lower(CleanedArg) \in {<<"t","r","u","e">>, <<"y","e","s">>} THEN ret = PyBool(TRUE)
        ELSE IF lower(CleanedArg) \in {<<"f","a","l","s","e">>, <<"n","o">>} THEN ret = PyBool(FALSE)
        ELSE IF IsIntLiteral(CleanedArg) THEN ret = PyInt(ParseInt(CleanedArg))
        ELSE ret.t = "float" \/ ret = PyStr(CleanedArg)
\* "[42" is cleaned to "42" and returned as the integer 42
C18_Witness ==
    /\ op = "clean_string"
    /\ arg = PyStr(<<"[","4","2">>)
    /\ ret = PyInt(42)

\* C19: is_internal always returns a boolean: True when the IsInternal
\* annotation is true, and False otherwise, also when the annotation is absent
\* or is text that is neither true/yes nor false/no.
C19_IsInternalIsBoolean ==
    op = "is_internal" =>
        ret = PyBool(/\ RawAt(item, "annotations", "IsInternal") # Unset
                     /\ lower(RawAt(item, "annotations", "IsInternal").s) \in {<<"t","r","u","e">>, <<"y","e","s">>})

\* the values of key in it, in a depth-first traversal in document order: an
\* entry, then what is nested in its value, then the next entry
RECURSIVE OccurrencesFrom(_, _, _)
OccurrencesFrom(d, i, key) ==
    IF i > Len(d) THEN <<>>
    ELSE (IF d[i][1] = key THEN <<d[i][2]>> ELSE <<>>)
         \o (IF d[i][2].t = "dict" THEN OccurrencesFrom(d[i][2].d, 1, key) ELSE <<>>)
         \o OccurrencesFrom(d, i + 1, key)
Occurrences(it, key) == OccurrencesFrom(it.d, 1, key)

\* C23 as stated: get_dict_value(item, key) returns the value of the first
\* occurrence of key in a depth-first, document-order traversal of the nested
\* mappings of item, a nested occurrence that precedes a same-level one
\* winning, and returns None only when key occurs nowhere in item.
C23_FirstInDocumentOrder ==
    op = "get_dict_value" =>
        /\ Occurrences(item, "k") # <<>> => ret = Occurrences(item, "k")[1]
        /\ ret = None => Occurrences(item, "k") = <<>>

\* the answer for a mapping: the value of its own key, else the first answer
\* that is not None among the answers for its mapping values, in document order
RECURSIVE Answer(_, _)
Answers(it, key) ==
    SelectSeq([i \in 1..Len(it.d) |->
                  IF it.d[i][2].t = "dict" THEN Answer(it.d[i][2], key) ELSE None],
              LAMBDA v : v # None)
Answer(it, key) ==
    IF HasKey(it.d, key) THEN GetKey(it.d, key)
    ELSE IF Answers(it, key) = <<>> THEN None
    ELSE Answers(it, key)[1]

\* C23: get_dict_value(item, key) returns item[key] when key is a key of item
\* itself, also when a nested occurrence precedes it in document order;
\* otherwise it returns the first result that is not None among the results
\* of get_dict_value for the mapping values of item, in document order, and
\* None when there is none.
C23_OwnKeyThenNestedInOrder ==
    op = "get_dict_value" => ret = Answer(item, "k")

\* a nested occurrence precedes the key of the mapping itself, and the value
\* of the mapping's own key was returned
C23_Witness ==
    /\ op = "get_dict_value"
    /\ Len(Occurrences(item, "k")) >= 2
    /\ Occurrences(item, "k")[1] = PyInt(1)
    /\ item.d[Len(item.d)] = <<"k", PyInt(9)>>
    /\ ret = PyInt(9)

\* the pairs <<N, M>> of the "(Min: N, Max: M)" patterns that text contains,
\* in every spacing get_min_max accepts
BoundsIn(text) ==
    UNION {{<<DigitsValue(nm[1], 0), DigitsValue(nm[2], 0)>> : nm \in MinMaxPairsAt(text, i)} :
            i \in 1..Len(text)}

\* C24: whenever get_min_max extracts bounds (N, M) from a descriptor's
\* description, the text get_description returns for the same descriptor
\* contains no "(Min: N, Max: M)" with those bounds, in any spacing that
\* get_min_max accepts.
C24_ExtractedBoundsAreStripped ==
    (op = "get_description" /\ get_min_max(item).t = "tuple"
                            /\ get_min_max(item).l[1] # None) =>
        /\ ret.t = "str"
        /\ <<get_min_max(item).l[1].n, get_min_max(item).l[2].n>> \notin BoundsIn(ret.s)

(***************************************************************************)
(* Properties of the builder (checked under SpecCommit)                    *)
(***************************************************************************)
\* commit() ran last and returned
CommitSucceeded == op = "commit" /\ ret = None
\* the parameters of the committed template
Parameters == item_get(template_dict, "parameters").l
\* the parameters commit() does not skip: not internal, not hidden, named
Survives(it) ==
    /\ ~Truthy(is_internal(it))
    /\ is_hidden(it) = PyBool(FALSE)
    /\ Truthy(item_get(it, "name"))
Survivors == {i \in 1..Len(Parameters) : Survives(Parameters[i])}
\* the name a parameter is documented under: the fixed table's correction of
\* its name, or its name
TargetName(it) ==
    IF HasKey(typo_keys, item_get(it, "name").s)
    THEN GetKey(typo_keys, item_get(it, "name").s)
    ELSE item_get(it, "name").s
TargetNames == {TargetName(Parameters[i]) : i \in Survivors}
\* documentation["options"]["config"]["suboptions"]
DocumentedSuboptions ==
    GetKey(GetKey(GetKey(documentation.d, "options").d, "config").d, "suboptions").d
DocumentedKeys == {DocumentedSuboptions[i][1] : i \in 1..Len(DocumentedSuboptions)}

DocumentedKeyList == [i \in 1..Len(DocumentedSuboptions) |-> DocumentedSuboptions[i][1]]

\* C11: after a successful commit the keys of the suboptions are in ascending
\* order of the target names (the order of Python's string comparison),
\* whatever the order of the parameters in the template.
C11_SuboptionsSorted ==
    CommitSucceeded =>
        \A i, j \in 1..Len(DocumentedKeyList) :
            i < j => StrLess(DocumentedKeyList[i], DocumentedKeyList[j])
\* a committed template whose two surviving parameters come in descending order
C11_Witness ==
    /\ CommitSucceeded
    /\ Len(Parameters) = 2
    /\ item_get(Parameters[1], "name") = PyStr(<<"B","G","P","_","A","S">>)
    /\ item_get(Parameters[2], "name") = PyStr(<<"A","N","Y","C","A","S","T","_","M","T","U">>)
    /\ DocumentedKeyList = <<<<"A","N","Y","C","A","S","T","_","M","T","U">>, <<"B","G","P","_","A","S">>>>

\* the name of a parameter as the template gives it
NameOf(it) == item_get(it, "name").s
\* C12: in commit() a surviving parameter whose name is a key of the fixed
\* table is inserted under the table's corrected name (and not under its own),
\* and a surviving parameter whose name is not in the table is inserted under
\* its name unchanged.
C12_TranslatedOrUnchanged ==
    CommitSucceeded =>
        \A i \in Survivors :
            \/ \E k \in 1..Len(typo_keys) :
                  /\ typo_keys[k][1] = NameOf(Parameters[i])
                  /\ typo_keys[k][2] \in DocumentedKeys
                  /\ NameOf(Parameters[i]) \notin DocumentedKeys
            \/ /\ \A k \in 1..Len(typo_keys) : typo_keys[k][1] # NameOf(Parameters[i])
               /\ NameOf(Parameters[i]) \in DocumentedKeys
\* a committed template with a parameter named in the table and one that is not
C12_Witness ==
    /\ CommitSucceeded
    /\ Cardinality(Survivors) = 2
    /\ \E i \in Survivors : NameOf(Parameters[i]) = <<"D","E","A","F","U","L","T","_","Q","U","E","U","I","N","G","_","P","O","L","I","C","Y","_","O","T","H","E","R">>
    /\ \E i \in Survivors : NameOf(Parameters[i]) = <<"B","G","P","_","A","S">>
    /\ translation = << <<<<"D","E","A","F","U","L","T","_","Q","U","E","U","I","N","G","_","P","O","L","I","C","Y","_","O","T","H","E","R">>, <<"D","E","F","A","U","L","T","_","Q","U","E","U","I","N","G","_","P","O","L","I","C","Y","_","O","T","H","E","R">>>> >>
    /\ DocumentedKeys = {<<"B","G","P","_","A","S">>, <<"D","E","F","A","U","L","T","_","Q","U","E","U","I","N","G","_","P","O","L","I","C","Y","_","O","T","H","E","R">>}

\* the surviving parameter an entry of the suboptions is built from: the last
\* one of the template with that target name
LastWith(k) ==
    CHOOSE i \in Survivors :
        /\ TargetName(Parameters[i]) = k
        /\ \A j \in Survivors : TargetName(Parameters[j]) = k => j <= i
\* the entries of the all-templates index, in index order
IndexEntries == [i \in 1..Len(template_all.template.d) |-> template_all.template.d[i][2]]
\* the entry carries the tag: it is one of the comma-separated tags of the entry
Carries(entry, tag) ==
    /\ HasKey(entry.d, "tags")
    /\ \E part \in {split(clean_text(GetKey(entry.d, "tags").s), ",")[k] :
                      k \in 1..Len(split(clean_text(GetKey(entry.d, "tags").s), ","))} :
          strip(part) = tag
RECURSIVE NamesCarrying(_, _)
NamesCarrying(entries, tag) ==
    IF entries = <<>> THEN <<>>
    ELSE (IF Carries(Head(entries), tag) THEN <<item_get(Head(entries), "name")>> ELSE <<>>)
         \o NamesCarrying(Tail(entries), tag)
\* the tag named after the marker: the text between the first and second dot
TagAfterMarker(first) == split(first, ".")[2]
ChoicesAsClaimed(entry, enum) ==
    IF enum.l = <<>> THEN ~HasKey(entry.d, "choices")
    ELSE /\ HasKey(entry.d, "choices")
         /\ IF Contains(py_str(enum.l[1]), <<"T","E","M","P","L","A","T","E","S">>)
            THEN /\ template_all.template.t = "dict"
                 /\ Len(split(py_str(enum.l[1]), ".")) >= 2
                 /\ GetKey(entry.d, "choices")
                        = PyList(NamesCarrying(IndexEntries, TagAfterMarker(py_str(enum.l[1]))))
            ELSE GetKey(entry.d, "choices") = enum
\* C13: in commit(), when the first element of a parameter's enum list contains
\* the marker TEMPLATES the choices are the names of the templates of the index
\* that carry the tag named after the marker, in index order; for every other
\* non-empty enum list the choices are the enum list, and a parameter with an
\* empty enum list gets no choices.
C13_ChoicesFromEnumOrIndex ==
    CommitSucceeded =>
        \A i \in 1..Len(DocumentedSuboptions) :
            ChoicesAsClaimed(DocumentedSuboptions[i][2],
                             get_enum(Parameters[LastWith(DocumentedSuboptions[i][1])]))
\* a committed template whose parameter names the tag QoS_Other: its choices
\* are the two templates of the index with that tag
C13_Witness ==
    /\ CommitSucceeded
    /\ Len(DocumentedSuboptions) = 1
    /\ get_enum(Parameters[LastWith(DocumentedSuboptions[1][1])])
          = PyList(<<PyStr(<<"%","T","E","M","P","L","A","T","E","S",".","Q","o","S","_","O","t","h","e","r">>)>>)
    /\ GetKey(DocumentedSuboptions[1][2].d, "choices")
          = PyList(<<PyStr(<<"q","u","e","u","i","n","g","_","p","o","l","i","c","y","_","d","e","f","a","u","l","t","_","o","t","h","e","r">>),
                     PyStr(<<"q","u","e","u","i","n","g","_","p","o","l","i","c","y","_","d","e","f","a","u","l","t","_","8","q">>)>>)

\* the four types of the documentation
AnsibleTypes == {PyStr(<<"b","o","o","l">>), PyStr(<<"s","t","r">>), PyStr(<<"i","n","t">>), PyStr(<<"l","i","s","t">>)}
\* the type stored in an entry of the suboptions
TypeOf(entry) == GetKey(entry.d, "type")
\* C16 as stated: the type of every suboption written by commit() is one of
\* bool, str, int, list.
C16_TypeIsAnsibleType ==
    CommitSucceeded =>
        \A i \in 1..Len(DocumentedSuboptions) : TypeOf(DocumentedSuboptions[i][2]) \in AnsibleTypes
\* C16 amended: the type of a suboption written by commit() is one of bool,
\* str, int, list when the parameter's parameterType is a key of the
\* translation table; it is the parameterType unchanged when it is not, and
\* None when the parameter has no parameterType.
TypeAsTranslated(type, raw) ==
    IF raw = Unset THEN type = None
    ELSE IF HasKey(parameter_type_translation, raw.s) THEN type \in AnsibleTypes
    ELSE type = raw
C16_TypeIsAnsibleTypeWhenKnown ==
    CommitSucceeded =>
        \A i \in 1..Len(DocumentedSuboptions) :
            TypeAsTranslated(TypeOf(DocumentedSuboptions[i][2]),
                             RawTop(Parameters[LastWith(DocumentedSuboptions[i][1])],
                                    "parameterType"))
\* a committed template with a parameter of a type of the table and one
\* without parameterType
C16_Witness ==
    /\ CommitSucceeded
    /\ Len(DocumentedSuboptions) = 2
    /\ \E i \in 1..2 : TypeOf(DocumentedSuboptions[i][2]) = PyStr(<<"i","n","t">>)
    /\ \E i \in 1..2 : TypeOf(DocumentedSuboptions[i][2]) = None

\* C28: commit() is idempotent: with the template, the all-templates index
\* and the four module properties unchanged, a second commit() succeeds and
\* leaves the documentation equal to the documentation after the first
\* commit(): no description line and no suboption is added or kept twice.
C28_CommitIdempotent ==
    [][(CommitSucceeded /\ op' = "commit") => (ret' = None /\ documentation' = documentation)]_vars
\* a committed documentation with one description line and two suboptions,
\* the state a second commit() comes back to
C28_Witness ==
    /\ CommitSucceeded
    /\ Len(GetKey(documentation.d, "description").l) = 1
    /\ Len(DocumentedSuboptions) = 2

(***************************************************************************)
(* Properties of the builder from its construction (checked under Spec)    *)
(***************************************************************************)
\* one of the four mandatory properties has not been set
AnyUnset ==
    \/ module_name = None
    \/ module_author = None
    \/ module_states = None
    \/ module_default_state = None
\* documentation["options"]["config"], Unset when there is none
ConfigOf(doc) ==
    IF HasKey(GetKey(doc.d, "options").d, "config")
    THEN GetKey(GetKey(doc.d, "options").d, "config")
    ELSE Unset

\* C14: a commit() called while any of module name, module author, module
\* states or module default state is unset fails (an error raised or the
\* process ended), and it produces no options.config: the documentation holds
\* the config it held before the call, none if there was none.
C14_CommitFailsWhenUnset ==
    [][(op' = "commit" /\ AnyUnset)
          => (IsExc(ret') /\ ConfigOf(documentation') = ConfigOf(documentation))]_vars
\* commit() called with everything set but the author: ValueError, the module
\* name stored, no config
C14_Witness ==
    /\ op = "commit"
    /\ module_name # None /\ module_author = None
    /\ module_states # None /\ module_default_state # None
    /\ template_all # None /\ template_all.template # None
    /\ ret = Raised("ValueError")
    /\ HasKey(documentation.d, "module")
    /\ ConfigOf(documentation) = Unset

\* the recognized states
RecognizedStates ==
    {PyStr(<<"d","e","l","e","t","e","d">>), PyStr(<<"m","e","r","g","e","d">>), PyStr(<<"o","v","e","r","r","i","d","d","e","n">>), PyStr(<<"q","u","e","r","y">>),
     PyStr(<<"r","e","p","l","a","c","e","d">>)}
\* C15: setting module_default_state to a value outside the recognized states
\* raises ValueError and leaves the stored default state unchanged, setting a
\* recognized state stores it, and so the stored default state is always
\* unset or a recognized state.
C15_DefaultStateValidated ==
    /\ [](module_default_state \in RecognizedStates \cup {None})
    /\ [][\A value \in DefaultStateInputs :
            SetModuleDefaultStateTo(value) =>
                IF value \in RecognizedStates
                THEN module_default_state' = value /\ ret' = None
                ELSE module_default_state' = module_default_state
                     /\ ret' = Raised("ValueError")]_vars
\* "bogus" refused while "merged" is stored
C15_Witness ==
    /\ op = "module_default_state"
    /\ ret = Raised("ValueError")
    /\ module_default_state = PyStr(<<"m","e","r","g","e","d">>)

\* documentation["options"]["state"]
StateOptionOf(doc) == GetKey(GetKey(doc.d, "options").d, "state")
\* the default of the state option is one of its choices
DefaultAmongChoices(doc) ==
    \E i \in 1..Len(GetKey(StateOptionOf(doc).d, "choices").l) :
        GetKey(StateOptionOf(doc).d, "choices").l[i] = GetKey(StateOptionOf(doc).d, "default")

\* C27: after every successful commit(), options.state.default is a member of
\* options.state.choices, for any order in which module_states and
\* module_default_state were set.
C27_DefaultStateAmongChoices ==
    (op = "commit" /\ ret = None) => DefaultAmongChoices(documentation)
\* C27 as the code has it: after every successful commit(), options.state.default
\* is the module_default_state last stored, one of the five recognized states,
\* and options.state.choices is the module_states list last stored, each of its
\* elements a recognized state; the default need not be one of the choices.
C27_DefaultAndChoicesRecognized ==
    (op = "commit" /\ ret = None) =>
        /\ GetKey(StateOptionOf(documentation).d, "default") = module_default_state
        /\ module_default_state \in RecognizedStates
        /\ GetKey(StateOptionOf(documentation).d, "choices") = module_states
        /\ \A i \in 1..Len(module_states.l) : module_states.l[i] \in RecognizedStates
\* a commit() that succeeded with the states ["query"] and the default "merged"
C27_Witness ==
    /\ op = "commit"
    /\ ret = None
    /\ GetKey(StateOptionOf(documentation).d, "choices") = PyList(<<PyStr(<<"q","u","e","r","y">>)>>)
    /\ GetKey(StateOptionOf(documentation).d, "default") = PyStr(<<"m","e","r","g","e","d">>)

\* a commit() step that fails because a mandatory property is unset: the
\* ValueError of add_module_name, add_module_author or add_module_state
CommitFailsUnset == op' = "commit" /\ AnyUnset /\ ret' = Raised("ValueError")
\* documentation[k], Unset when there is none
EntryOf(doc, k) == IF HasKey(doc.d, k) THEN GetKey(doc.d, k) ELSE Unset

\* C29: a commit() that fails because a mandatory property is unset leaves the
\* documentation exactly as it was before the call: it writes no module,
\* author, description or options.state entry.
C29_FailedCommitWritesNothing ==
    [][CommitFailsUnset => documentation' = documentation]_vars
\* C29 as the code has it: such a commit() leaves options as it was and writes
\* the entries whose checks come before the missing property: module when
\* module_name is set, author and description when module_name and
\* module_author are set; every other entry is as it was before the call.
C29_FailedCommitWritesCheckedEntries ==
    [][CommitFailsUnset =>
        /\ EntryOf(documentation', "options") = EntryOf(documentation, "options")
        /\ EntryOf(documentation', "module") =
              IF module_name # None THEN module_name ELSE EntryOf(documentation, "module")
        /\ EntryOf(documentation', "author") =
              IF module_name # None /\ module_author # None THEN module_author
              ELSE EntryOf(documentation, "author")
        /\ EntryOf(documentation', "description") =
              IF module_name # None /\ module_author # None
              THEN PyList(<<PyStr(<<"M","a","n","a","g","e"," ","c","r","e","a","t","i","o","n"," ","a","n","d"," ","c","o","n","f","i","g","u","r","a","t","i","o","n"," ","o","f"," ","N","D","F","C"," ","f","a","b","r","i","c","s",".">>)>>)
              ELSE EntryOf(documentation, "description")
        /\ \A i \in 1..Len(documentation'.d) :
              documentation'.d[i][1] \in {"options", "module", "author", "description"}]_vars
\* commit() failed on the missing states of a builder that never committed:
\* module, author and description are written, options is empty
C29_Witness ==
    /\ op = "commit"
    /\ ret = Raised("ValueError")
    /\ module_name # None /\ module_author # None /\ module_states = None
    /\ EntryOf(documentation, "module") = module_name
    /\ EntryOf(documentation, "author") = module_author
    /\ EntryOf(documentation, "description") # Unset
    /\ EntryOf(documentation, "options") = PyDict(<<>>)

(***************************************************************************)
(* Claims about the HTTP client                                            *)
(***************************************************************************)
\* the body of a response is JSON
IsJson(resp) == json_loads(resp.text) # Raised("JSONDecodeError")

\* ndfc_action sent a valid request and the response reply arrived
Answered(reply) ==
    /\ response' = reply
    /\ \E params \in {p \in RequestParams : ValidRequest(p)} : NdfcActionWith(params, reply)

\* C20 as stated: whenever ndfc_action sends a valid request and a response
\* arrives, it returns the parsed JSON body if the status is 200 and raises
\* NdfcRequestError, returning nothing, for every other status.
C20_ParsedJsonOn200 ==
    [][\A reply \in Responses :
        Answered(reply) =>
            IF reply.status_code = 200
            THEN IsJson(reply) /\ ret' = json_loads(reply.text)
            ELSE ret' = Raised("NdfcRequestError")]_vars

\* C20: whenever ndfc_action sends a valid request and a response arrives,
\* with status 200 it returns the parsed JSON body when the body is JSON and
\* the response object itself when the body is not JSON; with every other
\* status it raises NdfcRequestError and returns nothing.
C20_StatusDecidesResult ==
    [][\A reply \in Responses :
        Answered(reply) =>
            IF reply.status_code # 200 THEN ret' = Raised("NdfcRequestError")
            ELSE IF IsJson(reply) THEN ret' = json_loads(reply.text)
            ELSE ret' = reply]_vars

\* a response with status 200 and a body that is not JSON was returned as it is
C20_Witness ==
    /\ op = "ndfc_action"
    /\ response # None
    /\ response.status_code = 200
    /\ ~IsJson(response)
    /\ ret = response

(***************************************************************************)
(* Claims about the construction of the HTTP client and login()            *)
(***************************************************************************)
\* the client was just constructed: NDFC() returned and nothing else was called
Fresh == op = "__init__" /\ ret = None
\* the body of the response is a JSON object
IsObject(reply) == json_loads(reply.text).t = "dict"
\* the JSON object of the response carries the field jwttoken
CarriesToken(reply) == HasKey(json_loads(reply.text).d, <<"j","w","t","t","o","k","e","n">>)
\* the login responses whose body is a JSON object
ObjectResponses == {reply \in LoginResponses : IsObject(reply)}

\* C21: on a freshly constructed client with the three login variables in the
\* environment, login() with a response that carries jwttoken sets bearer_token
\* to "Bearer <jwttoken>"; with a response lacking jwttoken the process exits
\* with status 1 and bearer_token stays unset.
C21_LoginSetsBearerToken ==
    [][\A reply \in ObjectResponses :
        (Fresh /\ LoginWith(reply)) =>
            IF CarriesToken(reply)
            THEN bearer_token' = PyStr(<<"B","e","a","r","e","r"," ">>
                                       \o py_str(GetKey(json_loads(reply.text).d, <<"j","w","t","t","o","k","e","n">>)))
            ELSE ret' = SysExit(1) /\ bearer_token' = None]_vars

\* the variable is exported
Exported(name) == HasKey(environ.d, name)

\* C22: unset optional environment variables take their documented defaults:
\* NDFC() exits with status 1 exactly when NDFC_IP4 or NDFC_PASSWORD is
\* missing, a client constructed without NDFC_USERNAME has the username
\* "admin", and without NDFC_DOMAIN the login request uses the domain "local".
C22_DefaultsForUnsetVariables ==
    /\ op = "__init__" =>
        /\ ret = SysExit(1) <=> (~Exported("NDFC_IP4") \/ ~Exported("NDFC_PASSWORD"))
        /\ (ret = None /\ ~Exported("NDFC_USERNAME")) => username = PyStr(<<"a","d","m","i","n">>)
    /\ (login_request # None /\ ~Exported("NDFC_DOMAIN")) =>
        GetKey(login_request.payload.d, "domain") = PyStr(<<"l","o","c","a","l">>)

(***************************************************************************)
(* Properties of the dumps (checked under SpecPrint)                       *)
(***************************************************************************)
\* no commit() has completed: a commit() that completes leaves options.config,
\* and nothing removes it
NeverCommitted == ConfigOf(documentation) = Unset

\* C25: documentation_yaml() or documentation_json() called on a builder on
\* which commit() has never completed raises ValueError and prints no
\* documentation.
C25_DumpBeforeCommitRaises ==
    [][((DocumentationYaml \/ DocumentationJson) /\ NeverCommitted)
          => (ret' = Raised("ValueError") /\ printed' = printed)]_vars

(***************************************************************************)
(* Properties of NdfcTemplate.load (checked under SpecLoad)                *)
(***************************************************************************)
\* C26: load() raises ValueError when neither template_dict nor
\* template_json_file is set, and leaves template as it was (unset on a new
\* object); when template_dict is set, load() makes template equal to
\* template_dict and opens no file, also when template_json_file is set.
C26_LoadPrefersTemplateDict ==
    [][Load =>
        /\ (template_dict = None /\ template_json_file = None)
              => (ret' = Raised("ValueError") /\ template' = template /\ opened' = opened)
        /\ template_dict # None
              => (ret' = None /\ template' = template_dict /\ opened' = opened)]_vars
\* a load with both set, the file one that does not exist: the dictionary is
\* the template and nothing was opened
C26_Witness ==
    /\ op = "load"
    /\ ret = None
    /\ template_dict # None
    /\ template_json_file = NoPath
    /\ template = template_dict
    /\ opened = <<>>

(***************************************************************************)
(* Properties of pythonize_ruleset (checked under SpecRules)               *)
(***************************************************************************)
\* the rules that are one comparison or a conjunction of comparisons
PlainRules == {SingleRule, AndRule, AndRuleToo}
\* the rulesets with the keys of ruleset and the same rule for its i-th key
SameRuleAt(ruleset, i) ==
    {other \in RuleSets : Len(other.d) = Len(ruleset.d) /\ other.d[i] = ruleset.d[i]}

\* C30: in pythonize_ruleset, the rule stored for a key whose IsShow rule is
\* not None is derived from that key's own rule text only, never from the rule
\* of a key processed earlier (so it is the same whatever the rules of the
\* other keys are), and the call completes for a rule without "and" (a single
\* comparison) as well as for a conjunction.
C30_RuleFromOwnTextOnly ==
    [][(op = "init" /\ PythonizeRuleset) =>
        /\ (\A i \in 1..Len(item.d) : item.d[i][2] \in PlainRules \cup {None}) => ~IsExc(ret')
        /\ ~IsExc(ret') =>
              \A i \in 1..Len(item.d) :
                  item.d[i][2] # None =>
                      \A other \in SameRuleAt(item, i) :
                          ~IsExc(pythonize_ruleset(translation, other).ret) =>
                              pythonize_ruleset(translation, other).ruleset[i] = item'.d[i]]_vars
\* the part of C30 about the stored rule alone
StoredRuleIsOwn ==
    [][(op = "init" /\ PythonizeRuleset /\ ~IsExc(ret')) =>
          \A i \in 1..Len(item.d) :
              item.d[i][2] # None =>
                  \A other \in SameRuleAt(item, i) :
                      ~IsExc(pythonize_ruleset(translation, other).ret) =>
                          pythonize_ruleset(translation, other).ruleset[i] = item'.d[i]]_vars
====
